---- MODULE Spec2Model ----
(***************************************************************************)
(* A state-machine model of the now-app client:                            *)
(*   - ProjectsModule (src/components/ProjectsModule.tsx, lines 1-498):    *)
(*     the in-memory project/step lists, drag reordering, editing, adding, *)
(*     delete with a single-slot undo and its 4 s toast timer;             *)
(*   - analyzeTranscript (src/lib/groq.ts);                                *)
(*   - FocusModule (src/components/ProjectsModule.tsx, lines 653-1456):    *)
(*     the swipeable task queue with its asynchronous completeTask.        *)
(* Array indices are 0-based as in the source; sequences are 1-based, so   *)
(* the helpers below translate.  Every event handler is one action; an     *)
(* async function is one action per stretch between two awaits, with the   *)
(* values its closure captured carried in the in-flight record.            *)
(***************************************************************************)
EXTENDS Integers, Sequences, FiniteSets, TLC

(***************************************************************************)
(* Bounds of the model.                                                    *)
(***************************************************************************)
\* most steps kept, over all projects, in an initial state of SpecSteps
MaxInitSteps == 2
\* most steps kept, over all projects, in an initial state of SpecDrag
MaxDragSteps == 4
\* most steps kept, over all projects, in an initial state of SpecUndo
MaxUndoSteps == 4
\* most steps that submitNewTask creates in SpecSteps
MaxCreates == 2
\* most steps that submitNewTask creates in SpecUndo
MaxUndoCreates == 2
\* most runs of the effect of useAuth
MaxAuthEffects == 2
\* most ticks of the clock of useAuth, of a fifth of the wait each
MaxAuthTicks == 6
\* most signIn, signUp and signOut calls in flight
MaxAuthCalls == 1
\* most entries of InputModule into the state synthesizing
MaxEntries == 2
\* most analyzeTranscript calls
MaxAnalyzeCalls == 3
\* most processAI calls in flight
MaxProcesses == 2
\* most ticks of the clock of the toast, of a quarter of its delay each
MaxToastTicks == 8
\* most project rows that fetchData fetches in SpecGroup
MaxGroupProjects == 2
\* most task rows that fetchData fetches in SpecGroup
MaxGroupTasks == 2
\* most projects of an analysis result
MaxBatchProjects == 2
\* most tasks of an analysis result
MaxBatchTasks == 2
\* most task rows of the first remote project when FocusModule mounts, in SpecSkip
MaxSkipTasks == 3
\* most task rows of the first remote project when FocusModule mounts
MaxFocusTasks == 2
\* most task rows of the second remote project when FocusModule mounts
MaxOtherTasks == 0
\* most completeTask calls in flight at once
MaxInFlight == 2
\* most 250 ms timeouts armed at once
MaxTimers == 1
\* most custom sessions started
MaxSessions == 1
\* most tasks selected for a custom session
MaxSelected == 1
\* most projects that handleAddProject may grow the list to
MaxProjects == 4
\* largest value Date.now() takes
MaxNow == 1

VARIABLES
    \* ProjectsModule
    projects,               \* useState<Project[]>             (line 55)
    dragItem,               \* useState<DragItem | null>       (line 58): <<>> or <<item>>
    editingId,              \* useState<string | null>         (line 61)
    tempText,               \* useState('')                    (line 62)
    addingTaskToProjectId,  \* useState<string | null>         (line 65)
    newTaskText,            \* useState('')                    (line 66)
    toastVisible,           \* useState(false)                 (line 69)
    lastDeleted,            \* useState<{...} | null>          (line 70): <<>> or <<record>>
    toastTimeoutRef,        \* useRef: TRUE while a 4 s timer is armed (line 71)
    now,                    \* the value Date.now() returns
    \* history of ProjectsModule, read by the properties only
    created,                \* the number of steps submitNewTask has created
    removed,                \* history: the step the last delete removed, until an undo
                            \* restores a step
    undone,                 \* history: 0, or the number of deletes (counted to 2) that came
                            \* before the undo that was the last event on the undo slot
    deletes,                \* history: deletes since the last undo that restored a step, to 2
    touched,                \* history: the list changed between the last delete and now (or
                            \* the undo that followed it)
    draggedId,              \* the id of the project or step picked up by the last drag start
    mix,                    \* SpecUndo: the operations this run mixes with delete and undo
    \* analyzeTranscript (src/lib/groq.ts)
    apiKey,                 \* import.meta.env.VITE_GROQ_API_KEY is set          (line 27)
    transcript,             \* the argument `text` of the call                   (line 26)
    groqPc,                 \* where the call stands: idle, fetch, text, json, settled
    response,               \* what fetch resolved to: <<>> or <<response>>      (line 66)
    data,                   \* what response.json() resolved to: <<>> or <<data>> (line 95)
    outcome,                \* how the promise settled: <<>> or <<outcome>>
    \* FocusModule (src/components/ProjectsModule.tsx, lines 653-1456)
    selectedProject,        \* useState<string>('Hoy')                        (line 669)
    projectsState,          \* useState<Record<string, Task[]>>({})           (line 670)
    initialCounts,          \* useState<Record<string, number>>({})           (line 671)
    dragX,                  \* useState(0)                                    (line 678)
    isDragging,             \* useState(false)                                (line 679)
    animatingOut,           \* useState<'left' | 'right' | null>(null)        (line 680)
    snappedBack,            \* history: the last pointer event on the card was a release
                            \* within the threshold
    loading,                \* useState(true)                                 (line 686)
    crashed,                \* a state updater threw while rendering: the tree is unmounted
    dbProjects,             \* the rows of the remote table projects, in query order
    dbTasks,                \* the rows of the remote table tasks with status todo, in order
    fetchPc,                \* where fetchData stands: projects, projectsFallback, tasks,
                            \* tasksFallback, done
    projectsData,           \* fetchData's local projectsData                 (line 695)
    queryError,             \* fetchData's local projectsError, then tasksError: the error
                            \* of the query that settled last, <<>> for null (lines 695, 715)
    remoteOk,               \* history: the remote call of a completeTask call that settled
                            \* last reported no error
    completions,            \* the completeTask calls in flight, each with the values its
                            \* closure captured and the await it stands at
    timers,                 \* the armed 250 ms timeouts, in the order they were armed
    sessions,               \* the number of custom sessions started
    \* useAuth (src/unnamed/part_002) and the auth gate of App (src/App.tsx, lines 99-132)
    user,                   \* the store's user                              (line 15)
    session,                \* the store's session                           (line 15)
    storeLoading,           \* the store's loading                           (line 15)
    authEffects,            \* the runs of the effect of lines 17-64, each with its
                            \* cancelled flag, timer, getSession call and subscription
    elapsed,                \* the milliseconds since App mounted
    authCalls,              \* the signIn, signUp and signOut calls in flight
    authSettled,            \* history: <<>> or the call that settled last, with what the
                            \* remote auth subsystem answered and how the promise settled
    authError,              \* App's useState<string | null>(null)           (App.tsx:101)
    authLoading,            \* App's useState(false)                         (App.tsx:102)
    delivered,              \* history: the subscription has delivered a session, and no
                            \* notification or getSession result without one came since
    \* InputModule (src/components/FocusModule.tsx, lines 700-1262) and the views of App
    currentView,            \* App's useState<ViewState>('input')            (App.tsx:104)
    previousView,           \* App's useState<ViewState | null>(null)        (App.tsx:105)
    processingState,        \* useState(...)('idle')                         (line 706)
    inputTranscript,        \* the state transcript, useState('')            (line 709)
    keyboardText,           \* useState('')                                  (line 712)
    finalPending,           \* the recognition was stopped and may still deliver a result
    processes,              \* the processAI calls in flight, each with its position and
                            \* whether the InputModule that started it is still mounted
    entries,                \* history: the entries into the state synthesizing
    analyzeCalls,           \* history: the analyzeTranscript calls
    insertBatches,          \* history: the batches of remote inserts started
    completeCalls,          \* history: the onProcessComplete calls
    \* the inserts of processAI (src/components/FocusModule.tsx, lines 981-1028)
    analysisResult,         \* result: the names of its projects and the project_name of
                            \* its tasks                                     (line 977)
    savePc,                 \* where processAI stands: "projects", "tasks", "history", "done"
    saveIndex,              \* the index of the next element of the for loop
    projectMap,             \* new Map<string, string>()                     (line 982)
    returned,               \* history: per project insert, the id of data or null
    issued,                 \* history: the inserts issued, in order
    \* the time of the toast timer of ProjectsModule (lines 247-251)
    toastClock,             \* the milliseconds since ProjectsModule mounted
    toastDue,               \* when the timer of toastTimeoutRef fires, once one was armed
    deletedAt               \* history: when handleDeleteTask last removed a step

dragVars == <<dragItem, draggedId>>

editVars == <<editingId, tempText>>

addVars == <<addingTaskToProjectId, newTaskText>>

toastVars == <<toastVisible, toastTimeoutRef>>

undoHist == <<removed, undone, deletes, touched>>

pvars == <<projects, dragVars, editVars, addVars, toastVars, lastDeleted, undoHist,
           now, created, mix>>

gvars == <<apiKey, transcript, groqPc, response, data, outcome>>

fvars == <<selectedProject, projectsState, initialCounts, dragX, isDragging, animatingOut, snappedBack,
           loading, crashed, dbProjects, dbTasks, fetchPc, projectsData, queryError, remoteOk,
           completions, timers, sessions>>

avars == <<user, session, storeLoading, authEffects, elapsed, authCalls, authSettled, authError,
           authLoading, delivered>>

ivars == <<currentView, previousView, processingState, inputTranscript, keyboardText,
           finalPending, processes, entries, analyzeCalls, insertBatches, completeCalls>>

svars == <<analysisResult, savePc, saveIndex, projectMap, returned, issued>>

tvars == <<toastClock, toastDue, deletedAt>>

vars == <<pvars, gvars, fvars, avars, ivars, svars, tvars>>

NullId == "null"

\* the sequences over a set, up to a length
SeqsUpTo(set, n) == UNION { [1..k -> set] : k \in 0..n }

(***************************************************************************)
(* JavaScript array operations, on 0-based indices.                        *)
(***************************************************************************)
Min(a, b) == IF a <= b THEN a ELSE b

\* the value `undefined` where a Step is expected
UndefinedStep == [id |-> "undefined", order |-> 0, title |-> "undefined", isDone |-> FALSE]

\* the value `undefined` where a Project is expected
UndefinedProject == [id |-> "undefined", title |-> "undefined", colorClass |-> "undefined", steps |-> <<>>]

\* arr[i], undef when i is out of range
AtOr(arr, i, undef) == IF i >= 0 /\ i < Len(arr) THEN arr[i + 1] ELSE undef

\* arr after arr.splice(i, 1): nothing is removed when i >= arr.length
SpliceOut(arr, i) ==
    IF i >= 0 /\ i < Len(arr)
    THEN SubSeq(arr, 1, i) \o SubSeq(arr, i + 2, Len(arr))
    ELSE arr

\* arr after arr.splice(i, 0, item): the start index is clamped to arr.length
SpliceIn(arr, i, item) ==
    LET s == Min(i, Len(arr))
    IN  SubSeq(arr, 1, s) \o <<item>> \o SubSeq(arr, s + 1, Len(arr))

\* arr.findIndex(s => s.id === id): -1 when there is none
FindIndex(arr, id) ==
    IF \E k \in 1..Len(arr) : arr[k].id = id
    THEN (CHOOSE k \in 1..Len(arr) :
            /\ arr[k].id = id
            /\ \A m \in 1..(k - 1) : arr[m].id # id) - 1
    ELSE -1

\* arr.filter(s => s.id !== id)
FilterOutId(arr, id) == SelectSeq(arr, LAMBDA s : s.id # id)

\* text.trim() on the texts the model types
Trim(text) == IF text = " " THEN "" ELSE text

\* Date.now().toString()
NewStepId(t) == ToString(t)

\* `p-${Date.now()}`
NewProjectId(t) == "p-" \o ToString(t)

(***************************************************************************)
(* ProjectsModule: the initial list.                                       *)
(***************************************************************************)
INITIAL_PROJECTS ==
    << [id |-> "p1", title |-> "Canal de productividad", colorClass |-> "bg-primary",
        steps |-> << [id |-> "s1", order |-> 1, title |-> "Definir mensaje del video de intro", isDone |-> FALSE],
                     [id |-> "s2", order |-> 2, title |-> "Elegir formato de grabacion", isDone |-> FALSE],
                     [id |-> "s2b", order |-> 3, title |-> "Crear guion tecnico", isDone |-> FALSE] >>],
       [id |-> "p2", title |-> "Viaje a Japon", colorClass |-> "bg-primary",
        steps |-> << [id |-> "s3", order |-> 1, title |-> "Buscar vuelos baratos", isDone |-> FALSE],
                     [id |-> "s4", order |-> 2, title |-> "Revisar hoteles en Kyoto", isDone |-> FALSE] >>],
       [id |-> "p3", title |-> "Cena familiar", colorClass |-> "bg-primary",
        steps |-> << [id |-> "s5", order |-> 1, title |-> "Llamar a mama", isDone |-> FALSE],
                     [id |-> "s6", order |-> 2, title |-> "Reservar mesa para 6 personas", isDone |-> FALSE] >>] >>

\* the ids of the initial steps: the first of each project, then the second of
\* each, then the third
InitialStepIds == <<"s1", "s3", "s5", "s2", "s4", "s6", "s2b">>

\* INITIAL_PROJECTS with only its first n steps left
Thinned(n) ==
    LET K == { InitialStepIds[k] : k \in 1..Min(n, Len(InitialStepIds)) }
    IN  [i \in 1..Len(INITIAL_PROJECTS) |->
            [INITIAL_PROJECTS[i] EXCEPT !.steps = SelectSeq(@, LAMBDA s : s.id \in K)]]

\* the texts a user types into an input
Texts == {" ", "x"}

\* the number of steps over all projects (totalTasks, line 77)
totalTasks(ps) ==
    LET RECURSIVE Sum(_)
        Sum(i) == IF i = 0 THEN 0 ELSE Len(ps[i].steps) + Sum(i - 1)
    IN  Sum(Len(ps))

(***************************************************************************)
(* The component after construction.  The list starts as INITIAL_PROJECTS  *)
(* (7 steps); the model starts from the states reached from it by deleting *)
(* steps (delete the unwanted steps, then delete and undo a kept one,      *)
(* which leaves lastDeleted null, and let the toast timer fire), so that   *)
(* the first n steps of InitialStepIds remain, for some n up to the bound. *)
(***************************************************************************)
InitWith(ks, mixes) ==
    /\ \E k \in ks : projects = Thinned(k)
    /\ dragItem = <<>>
    /\ editingId = NullId
    /\ tempText = ""
    /\ addingTaskToProjectId = NullId
    /\ newTaskText = ""
    /\ toastVisible = FALSE
    /\ lastDeleted = <<>>
    /\ toastTimeoutRef = FALSE
    /\ toastClock = 0
    /\ toastDue = 0
    /\ deletedAt = 0
    /\ now = 0
    /\ created = 0
    /\ removed = <<>>
    /\ undone = 0
    /\ deletes = 0
    /\ touched = FALSE
    /\ draggedId = NullId
    /\ mix \in mixes

(***************************************************************************)
(* ProjectsModule: drag and drop.                                          *)
(***************************************************************************)
\* the items rendered with drag handlers (lines 336-386)
ProjectItems == { [type |-> "project", projectId |-> "", index |-> i - 1] : i \in 1..Len(projects) }

TaskItems ==
    UNION { { [type |-> "task", projectId |-> projects[i].id, index |-> k - 1] :
                k \in 1..Len(projects[i].steps) } : i \in 1..Len(projects) }

DragItems == ProjectItems \cup TaskItems

\* no drag-and-drop session is under way: while one is, the browser delivers
\* drag events only, so the click, key and blur handlers run outside it
NoDragSession == dragItem = <<>>

\* no input is rendered.  Both kinds of input take the focus when they appear
\* (autoFocus, lines 357 and 402; the effect of lines 113-117) and save on blur, so
\* the blur handler of a rendered input runs before any click or drag elsewhere
NoInput == editingId = NullId /\ addingTaskToProjectId = NullId

\* the state in which a click or a drag start is delivered
UiIdle == NoDragSession /\ NoInput

\* history: whether the list has changed since the delete whose record is in the slot
Touched(ps) == touched \/ (lastDeleted # <<>> /\ ps # projects)

\* projects.find(p => p.id === id) succeeds
HasProject(ps, id) == \E i \in 1..Len(ps) : ps[i].id = id

\* the index (1-based) projects.find(p => p.id === id) stops at
FirstWith(ps, id) == CHOOSE i \in 1..Len(ps) : ps[i].id = id /\ \A m \in 1..(i - 1) : ps[m].id # id

\* the id of the rendered item: a project's, or that of the step at the item's place
ItemId(ps, item) ==
    IF item.type = "project" THEN AtOr(ps, item.index, UndefinedProject).id
    ELSE IF HasProject(ps, item.projectId)
    THEN AtOr(ps[FirstWith(ps, item.projectId)].steps, item.index, UndefinedStep).id
    ELSE "undefined"

\* lines 121-128
handleDragStart(item) ==
    /\ UiIdle
    /\ dragItem' = <<item>>
    /\ draggedId' = ItemId(projects, item)
    /\ UNCHANGED <<projects, editVars, addVars, toastVars, lastDeleted, undoHist, now, created, mix, gvars, fvars, avars, ivars, svars, tvars>>

\* a move that exchanges the two places instead of shifting the items between them (the code does not do this)
MoveSwapped(arr, i, j, undef) ==
    [m \in 1..Len(arr) |-> IF m = i + 1 THEN arr[j + 1] ELSE IF m = j + 1 THEN arr[i + 1] ELSE arr[m]]

\* the list after the item at index i is spliced out and back in at index j
\* (lines 143-145 and 162-164)
MoveWithin(arr, i, j, undef) == SpliceIn(SpliceOut(arr, i), j, AtOr(arr, i, undef))

\* lines 160-168: same-project reorder, applied to every project with the id
ReorderSame(ps, d, t) ==
    [i \in 1..Len(ps) |->
        IF ps[i].id = d.projectId
        THEN [ps[i] EXCEPT !.steps = MoveWithin(@, d.index, t.index, UndefinedStep)]
        ELSE ps[i]]

\* a cross-project move that forgets to take the step out of its source (the code does not do this)
MoveAcrossCopied(ps, d, t) ==
    LET src == FirstWith(ps, d.projectId)
        dst == FirstWith(ps, t.projectId)
        item == AtOr(ps[src].steps, d.index, UndefinedStep)
    IN  [i \in 1..Len(ps) |->
            IF i = dst THEN [ps[i] EXCEPT !.steps = SpliceIn(@, t.index, item)] ELSE ps[i]]

\* lines 174-186: cross-project move; find() takes the first project with the id
MoveAcross(ps, d, t) ==
    LET src == FirstWith(ps, d.projectId)
        dst == FirstWith(ps, t.projectId)
        item == AtOr(ps[src].steps, d.index, UndefinedStep)
    IN  [i \in 1..Len(ps) |->
            IF i = src THEN [ps[i] EXCEPT !.steps = SpliceOut(@, d.index)]
            ELSE IF i = dst THEN [ps[i] EXCEPT !.steps = SpliceIn(@, t.index, item)]
            ELSE ps[i]]

\* the projects after handleDragEnter (lines 134-190)
DragEnterProjects(ps, d, t) ==
    IF d.type # t.type THEN ps
    ELSE IF d.type = "project"
    THEN IF d.index = t.index THEN ps
         ELSE MoveWithin(ps, d.index, t.index, UndefinedProject)
    ELSE IF d.projectId = t.projectId
    THEN IF d.index = t.index THEN ps ELSE ReorderSame(ps, d, t)
    ELSE IF HasProject(ps, d.projectId) /\ HasProject(ps, t.projectId)
    THEN MoveAcross(ps, d, t)
    ELSE ps

\* the drag state after handleDragEnter (lines 148, 170, 186)
DragEnterItem(ps, d, t) ==
    IF d.type # t.type THEN d
    ELSE IF d.type = "project"
    THEN [d EXCEPT !.index = t.index]
    ELSE IF d.projectId = t.projectId
    THEN [d EXCEPT !.index = t.index]
    ELSE IF HasProject(ps, d.projectId) /\ HasProject(ps, t.projectId)
    THEN [type |-> "task", projectId |-> t.projectId, index |-> t.index]
    ELSE d

\* lines 134-190; without a drag state the handler returns at once (line 136)
handleDragEnter(t) ==
    /\ dragItem # <<>>
    /\ projects' = DragEnterProjects(projects, dragItem[1], t)
    /\ dragItem' = <<DragEnterItem(projects, dragItem[1], t)>>
    /\ touched' = Touched(projects')
    /\ UNCHANGED <<draggedId, editVars, addVars, toastVars, lastDeleted, removed, undone, deletes, now,
                   created, mix, gvars, fvars, avars, ivars, svars, tvars>>

\* lines 192-194
handleDragEnd ==
    /\ dragItem # <<>>
    /\ dragItem' = <<>>
    /\ draggedId' = NullId
    /\ UNCHANGED <<projects, editVars, addVars, toastVars, lastDeleted, undoHist, now, created, mix, gvars, fvars, avars, ivars, svars, tvars>>

(***************************************************************************)
(* ProjectsModule: editing a title.                                        *)
(***************************************************************************)
\* the ids of the rendered projects and steps
ProjectIds == { projects[i].id : i \in 1..Len(projects) }

StepIdsIn(ps) == UNION { { ps[i].steps[k].id : k \in 1..Len(ps[i].steps) } : i \in 1..Len(ps) }

\* (project id, step id) of every rendered step
RenderedSteps ==
    UNION { { <<projects[i].id, projects[i].steps[k].id>> : k \in 1..Len(projects[i].steps) } :
              i \in 1..Len(projects) }

\* every title that can be clicked, with its id (lines 367 and 411)
ClickableStepTitles ==
    UNION { { <<projects[i].steps[k].id, projects[i].steps[k].title>> :
                k \in 1..Len(projects[i].steps) } : i \in 1..Len(projects) }

ClickableTitles ==
    { <<projects[i].id, projects[i].title>> : i \in 1..Len(projects) } \cup ClickableStepTitles

\* lines 198-201
handleEditClick(id, currentText) ==
    /\ UiIdle
    /\ editingId' = id
    /\ tempText' = currentText
    /\ UNCHANGED <<projects, dragVars, addVars, toastVars, lastDeleted, undoHist, now, created, mix, gvars, fvars, avars, ivars, svars, tvars>>

\* onChange of the title input (lines 360, 404)
changeTempText(v) ==
    /\ NoDragSession
    /\ editingId \in ProjectIds \cup StepIdsIn(projects)
    /\ tempText # v
    /\ tempText' = v
    /\ UNCHANGED <<projects, dragVars, editingId, addVars, toastVars, lastDeleted, undoHist,
                   now, created, mix, gvars, fvars, avars, ivars, svars, tvars>>

\* the projects after lines 210-222; taskId "" stands for an absent taskId
SaveEditProjects(ps, projectId, taskId, text) ==
    [i \in 1..Len(ps) |->
        IF ps[i].id = projectId
        THEN IF taskId = ""
             THEN [ps[i] EXCEPT !.title = text]
             ELSE [ps[i] EXCEPT !.steps =
                      [k \in 1..Len(@) |-> IF @[k].id = taskId THEN [@[k] EXCEPT !.title = text] ELSE @[k]]]
        ELSE ps[i]]

\* lines 203-224, reached from onBlur and from Enter (handleKeyDown, lines 226-230)
handleSaveEdit(projectId, taskId) ==
    /\ NoDragSession
    /\ editingId = (IF taskId = "" THEN projectId ELSE taskId)
    /\ projects' = IF Trim(tempText) = "" THEN projects
                   ELSE SaveEditProjects(projects, projectId, taskId, tempText)
    /\ editingId' = NullId
    /\ touched' = Touched(projects')
    /\ UNCHANGED <<dragVars, tempText, addVars, toastVars, lastDeleted, removed, undone, deletes, now,
                   created, mix, gvars, fvars, avars, ivars, svars, tvars>>

(***************************************************************************)
(* ProjectsModule: delete, undo and the toast timer.                       *)
(***************************************************************************)
\* the record handleDeleteTask stores (lines 233-238): <<>> when the guard of line 237 fails
DeleteRecord(ps, projectId, taskId) ==
    IF ~HasProject(ps, projectId) THEN <<>>
    ELSE LET steps == ps[FirstWith(ps, projectId)].steps
             taskIndex == FindIndex(steps, taskId)
         IN  IF taskIndex = -1 THEN <<>>
             ELSE <<[projectId |-> projectId, task |-> steps[taskIndex + 1], index |-> taskIndex]>>

\* lines 240-245
DeleteProjects(ps, projectId, taskId) ==
    [i \in 1..Len(ps) |->
        IF ps[i].id = projectId
        THEN [ps[i] EXCEPT !.steps = FilterOutId(@, taskId)]
        ELSE ps[i]]

\* history: the first step with the id in the project, with its place
RemovedStep(ps, projectId, taskId) ==
    LET steps == ps[FirstWith(ps, projectId)].steps
        k == CHOOSE k \in 1..Len(steps) :
                 steps[k].id = taskId /\ \A m \in 1..(k - 1) : steps[m].id # taskId
    IN  <<[projectId |-> projectId, index |-> k - 1, task |-> steps[k]]>>

\* line 251: the delay of the toast timer, in milliseconds
ToastWait == 4000

\* the step of the clock of the toast
ToastTickMs == ToastWait \div 4

\* a delete that leaves an armed timer running instead of starting a new one (the code
\* does not do this)
KeptDue(armed, due, t) == IF armed /\ due >= t THEN due ELSE t + ToastWait

\* lines 248-251: the timer of the ref is cleared and a new one is armed at time t
RearmedDue(armed, due, t) == t + ToastWait

\* lines 232-253
handleDeleteTask(projectId, taskId) ==
    /\ UiIdle
    /\ IF DeleteRecord(projects, projectId, taskId) = <<>>
       THEN UNCHANGED <<projects, lastDeleted, toastVars, undoHist, toastDue, deletedAt>>
       ELSE /\ lastDeleted' = DeleteRecord(projects, projectId, taskId)
            /\ projects' = DeleteProjects(projects, projectId, taskId)
            /\ toastVisible' = TRUE
            /\ toastTimeoutRef' = TRUE
            /\ toastDue' = RearmedDue(toastTimeoutRef, toastDue, toastClock)
            /\ deletedAt' = toastClock
            /\ removed' = RemovedStep(projects, projectId, taskId)
            /\ undone' = 0
            /\ deletes' = Min(deletes + 1, 2)
            /\ touched' = FALSE
    /\ UNCHANGED <<dragVars, editVars, addVars, now, created, mix, gvars, fvars, avars, ivars, svars,
                   toastClock>>

\* the callback of the 4000 ms timer (lines 249-251)
toastTimeout ==
    /\ toastTimeoutRef
    /\ toastVisible' = FALSE
    /\ toastTimeoutRef' = FALSE
    /\ UNCHANGED <<projects, dragVars, editVars, addVars, lastDeleted, undoHist, now, created, mix, gvars, fvars, avars, ivars, svars, tvars>>

\* an undo that pushes the step to the end of its project (the code does not do this)
UndoProjectsAppended(ps, rec) ==
    [i \in 1..Len(ps) |->
        IF ps[i].id = rec.projectId THEN [ps[i] EXCEPT !.steps = Append(@, rec.task)] ELSE ps[i]]

\* lines 258-265
UndoProjects(ps, rec) ==
    [i \in 1..Len(ps) |->
        IF ps[i].id = rec.projectId
        THEN [ps[i] EXCEPT !.steps = SpliceIn(@, rec.index, rec.task)]
        ELSE ps[i]]

\* an undo that keeps the record of the delete (the code does not do this)
UndoRecordKept(rec) == <<rec>>

\* the lastDeleted record after handleUndo (line 268)
UndoRecord(rec) == <<>>

\* lines 255-269; the button stays in the document while the toast is hidden
handleUndo ==
    /\ UiIdle
    /\ IF lastDeleted = <<>>
       THEN UNCHANGED <<projects, toastVisible, lastDeleted, undoHist>>
       ELSE /\ projects' = UndoProjects(projects, lastDeleted[1])
            /\ toastVisible' = FALSE
            /\ lastDeleted' = UndoRecord(lastDeleted[1])
            /\ removed' = <<>>
            /\ undone' = deletes
            /\ deletes' = 0
            /\ touched' = touched
    /\ UNCHANGED <<dragVars, editVars, addVars, toastTimeoutRef, now, created, mix, gvars, fvars, avars, ivars, svars, tvars>>

(***************************************************************************)
(* ProjectsModule: adding a step or a project.                             *)
(***************************************************************************)
\* lines 271-274
startAddingTask(projectId) ==
    /\ UiIdle
    /\ addingTaskToProjectId' = projectId
    /\ newTaskText' = ""
    /\ UNCHANGED <<projects, dragVars, editVars, toastVars, lastDeleted, undoHist, now, created, mix, gvars, fvars, avars, ivars, svars, tvars>>

\* onChange of the new-step input (line 436)
changeNewTaskText(v) ==
    /\ NoDragSession
    /\ addingTaskToProjectId \in ProjectIds
    /\ newTaskText # v
    /\ newTaskText' = v
    /\ UNCHANGED <<projects, dragVars, editVars, addingTaskToProjectId, toastVars, lastDeleted,
                   undoHist, now, created, mix, gvars, fvars, avars, ivars, svars, tvars>>

\* lines 278-289
SubmitProjects(ps, projectId, text, t) ==
    [i \in 1..Len(ps) |->
        IF ps[i].id = projectId
        THEN [ps[i] EXCEPT !.steps =
                 Append(@, [id |-> NewStepId(t), order |-> 99, title |-> text, isDone |-> FALSE])]
        ELSE ps[i]]

\* lines 276-292, reached from onBlur and from Enter
submitNewTask(projectId) ==
    /\ NoDragSession
    /\ addingTaskToProjectId = projectId
    /\ projects' = IF Trim(newTaskText) # ""
                   THEN SubmitProjects(projects, projectId, newTaskText, now)
                   ELSE projects
    /\ created' = IF Trim(newTaskText) # "" THEN created + 1 ELSE created
    /\ addingTaskToProjectId' = NullId
    /\ touched' = Touched(projects')
    /\ UNCHANGED <<dragVars, editVars, newTaskText, toastVars, lastDeleted, removed, undone, deletes, now, mix, gvars, fvars, avars, ivars, svars, tvars>>

\* lines 294-307
handleAddProject ==
    /\ UiIdle
    /\ Len(projects) < MaxProjects
    /\ projects' = Append(projects, [id |-> NewProjectId(now), title |-> "Nuevo Proyecto",
                                     colorClass |-> "bg-primary", steps |-> <<>>])
    /\ editingId' = NewProjectId(now)
    /\ tempText' = "Nuevo Proyecto"
    /\ touched' = Touched(projects')
    /\ UNCHANGED <<dragVars, addVars, toastVars, lastDeleted, removed, undone, deletes, now, created, mix, gvars, fvars, avars, ivars, svars, tvars>>

\* time passes; an armed timer fires when it is due, before more time passes
ToastTick ==
    /\ toastClock < MaxToastTicks * ToastTickMs
    /\ toastTimeoutRef => toastClock < toastDue
    /\ toastClock' = toastClock + ToastTickMs
    /\ UNCHANGED <<pvars, gvars, fvars, avars, ivars, svars, toastDue, deletedAt>>

\* lines 249-251 when the clock is followed: the timer fires when it is due
toastTimeoutDue ==
    /\ toastClock >= toastDue
    /\ toastTimeout

\* a millisecond passes: Date.now() returns the next value
Tick ==
    /\ now < MaxNow
    /\ now' = now + 1
    /\ UNCHANGED <<projects, dragVars, editVars, addVars, toastVars, lastDeleted, undoHist,
                   created, mix, gvars, fvars, avars, ivars, svars, tvars>>

\* ProjectsModule as constructed, untouched
ProjectsAtRest == InitWith({Len(InitialStepIds)}, {"any"})

(***************************************************************************)
(* analyzeTranscript (src/lib/groq.ts, lines 26-122).  The call is one     *)
(* action per stretch between two awaits.  A JSON text is represented by   *)
(* the value it parses to; an object by the function from the names of the *)
(* fields it has to their values.                                          *)
(***************************************************************************)
\* the result of the catch block (lines 116-120)
Fallback ==
    [projects |-> << [name |-> "Nuevo Proyecto", description |-> "Generado automaticamente",
                      status |-> "active"] >>,
     tasks |-> << [title |-> "Comenzar planificacion", description |-> "Tarea inicial sugerida",
                   priority |-> "medium", project_name |-> "Nuevo Proyecto"] >>,
     insights |-> [dreams |-> <<>>, difficulties |-> <<>>, goals |-> <<>>]]

\* the promise resolves with value
Resolved(value) == [kind |-> "resolved", value |-> value]

\* the promise rejects with error
Rejected(error) == [kind |-> "rejected", error |-> error]

\* a catch block that throws the error again (the code does not do this)
Rethrown(error) == Rejected(error)

\* lines 112-121: whatever is thrown inside the try block ends in the fallback
Caught(error) == Resolved(Fallback)

\* the transcripts a caller passes
Transcripts == {"", "quiero viajar"}

\* the HTTP statuses the endpoint answers with; response.ok is status in 200..299
Statuses == {200, 201, 401, 429, 500}

Responses == { [status |-> st, ok |-> (st >= 200 /\ st <= 299)] : st \in Statuses }

\* the top-level fields of AnalysisResult (lines 1-18)
Fields == {"projects", "tasks", "insights"}

ProjectValues ==
    { <<>>,
      << [name |-> "Viaje", description |-> "d", status |-> "active"] >>,
      << [name |-> "Viaje", description |-> "d", status |-> "active"],
         [name |-> "Casa", description |-> "d", status |-> "active"] >> }

TaskValues ==
    { <<>>,
      << [title |-> "Comprar billetes", description |-> "d", priority |-> "high",
          project_name |-> "Viaje"] >> }

InsightValues ==
    { [dreams |-> <<>>, difficulties |-> <<>>, goals |-> <<>>],
      [dreams |-> <<"viajar">>, difficulties |-> <<>>, goals |-> <<"ahorrar">>] }

\* the objects a JSON text may parse to: any of the fields may be missing
Objects ==
    UNION { { [f \in S |-> IF f = "projects" THEN p ELSE IF f = "tasks" THEN t ELSE i] :
                p \in ProjectValues, t \in TaskValues, i \in InsightValues } :
            S \in SUBSET Fields }

\* the values a JSON text may parse to
JsonValues ==
    {[type |-> "null"], [type |-> "number"]} \cup { [type |-> "object", fields |-> o] : o \in Objects }

\* message.content: missing, the empty string, a text that is no JSON, or a JSON text
Contents ==
    {[str |-> "missing"], [str |-> "empty"], [str |-> "garbage"]}
    \cup { [str |-> "json", value |-> v] : v \in JsonValues }

\* the bodies response.json() resolves to: without choices, with an empty choices
\* array, with a first choice without message, or with a message
DataValues ==
    {[shape |-> "noChoices"], [shape |-> "noFirstChoice"], [shape |-> "noMessage"]}
    \cup { [shape |-> "message", content |-> c] : c \in Contents }

\* data.choices[0]?.message?.content (line 96), for a body that has choices
ContentOf(d) == IF d.shape = "message" THEN d.content ELSE [str |-> "missing"]

\* !parsed.projects || !parsed.tasks (line 106): an array, even an empty one, is truthy
Incomplete(fields) == "projects" \notin DOMAIN fields \/ "tasks" \notin DOMAIN fields

\* lines 96-110 with the catch block, run on the body d
AfterJson(d) ==
    IF d.shape = "noChoices" THEN Caught("TypeError")
    ELSE IF ContentOf(d).str \in {"missing", "empty"} THEN Caught("Groq devolvio una respuesta vacia")
    ELSE IF ContentOf(d).str = "garbage" THEN Caught("SyntaxError")
    ELSE IF ContentOf(d).value.type = "null" THEN Caught("TypeError")
    ELSE IF ContentOf(d).value.type = "number" THEN Caught("JSON recibido tiene una estructura incompleta")
    ELSE IF Incomplete(ContentOf(d).value.fields)
    THEN Caught("JSON recibido tiene una estructura incompleta")
    ELSE Resolved(ContentOf(d).value.fields)

\* no call has been made
GroqAtRest ==
    /\ apiKey = TRUE
    /\ transcript = ""
    /\ groqPc = "idle"
    /\ response = <<>>
    /\ data = <<>>
    /\ outcome = <<>>

\* lines 26-32 and 63-66: the credential check, outside the try block, then the fetch
analyzeTranscript ==
    /\ groqPc = "idle"
    /\ IF ~apiKey
       THEN /\ outcome' = <<Rejected("CONFIG_ERROR: API Key not found")>>
            /\ groqPc' = "settled"
       ELSE /\ groqPc' = "fetch"
            /\ UNCHANGED outcome
    /\ UNCHANGED <<apiKey, transcript, response, data, pvars, fvars, avars, ivars, svars, tvars>>

\* line 66: fetch resolves with a response; lines 89-95 choose what is awaited next
fetchResolves ==
    /\ groqPc = "fetch"
    /\ \E r \in Responses :
          /\ response' = <<r>>
          /\ groqPc' = IF r.ok THEN "json" ELSE "text"
    /\ UNCHANGED <<apiKey, transcript, data, outcome, pvars, fvars, avars, ivars, svars, tvars>>

\* line 66: fetch rejects with a network error
fetchRejects ==
    /\ groqPc = "fetch"
    /\ outcome' = <<Caught("TypeError: Failed to fetch")>>
    /\ groqPc' = "settled"
    /\ UNCHANGED <<apiKey, transcript, response, data, pvars, fvars, avars, ivars, svars, tvars>>

\* lines 90-92: response.text() settles, and the error is thrown either way
textSettles ==
    /\ groqPc = "text"
    /\ outcome' = <<Caught("Groq API Error")>>
    /\ groqPc' = "settled"
    /\ UNCHANGED <<apiKey, transcript, response, data, pvars, fvars, avars, ivars, svars, tvars>>

\* lines 95-110: response.json() resolves with a body
jsonResolves ==
    /\ groqPc = "json"
    /\ \E d \in DataValues :
          /\ data' = <<d>>
          /\ outcome' = <<AfterJson(d)>>
    /\ groqPc' = "settled"
    /\ UNCHANGED <<apiKey, transcript, response, pvars, fvars, avars, ivars, svars, tvars>>

\* line 95: response.json() rejects, the body being no JSON
jsonRejects ==
    /\ groqPc = "json"
    /\ outcome' = <<Caught("SyntaxError")>>
    /\ groqPc' = "settled"
    /\ UNCHANGED <<apiKey, transcript, response, data, pvars, fvars, avars, ivars, svars, tvars>>

(***************************************************************************)
(* useAuth (src/unnamed/part_002) and its use by App (src/App.tsx).        *)
(* The store useAuthStore is not part of the sources: it is taken to hold  *)
(* user, session and loading, loading being true until setLoading(false).  *)
(***************************************************************************)
\* line 29: the wait of the timer, in milliseconds
AuthWait == 2500

\* the step of the clock
AuthTickMs == AuthWait \div 5

\* the sessions the remote auth subsystem hands out
Sessions == {"s1"}

\* s?.user ?? null
UserOf(s) == IF s = NullId THEN NullId ELSE "user-of-" \o s

\* what a call to the remote auth subsystem settles with: the promise resolves with
\* an object holding error (null or an AuthError), or it rejects
AuthAnswers ==
    { [kind |-> "resolved", error |-> NullId],
      [kind |-> "resolved", error |-> "AuthApiError"],
      [kind |-> "rejected", error |-> "Failed to fetch"] }

\* the store before anything has set it
AuthStoreInit ==
    /\ user = NullId
    /\ session = NullId
    /\ storeLoading = TRUE

\* useAuth before App has mounted
AuthAtRest ==
    /\ AuthStoreInit
    /\ authEffects = <<>>
    /\ elapsed = 0
    /\ authCalls = <<>>
    /\ authSettled = <<>>
    /\ authError = NullId
    /\ authLoading = FALSE
    /\ delivered = FALSE

effectVars == <<authEffects, elapsed>>

callVars == <<authCalls, authSettled, authError, authLoading>>

\* lines 18-57: a run of the effect by the component owner, the subscription thrown or not
EffectRun(owner, thrown) ==
    [owner |-> owner, cancelled |-> FALSE, timer |-> "armed", due |-> elapsed + AuthWait,
     getSession |-> "pending", subscribed |-> ~thrown]

\* lines 59-63: the cleanup of a run
CleanedUp(run) ==
    [run EXCEPT !.cancelled = TRUE,
                !.timer = IF @ = "armed" THEN "cleared" ELSE @,
                !.subscribed = FALSE]

\* a done() that sets loading when the run was cancelled (the code does not do this)
DoneInverted(run, loading0) == IF run.cancelled THEN FALSE ELSE loading0

\* lines 21-23: the value of loading after done() of the run
Done(run, loading0) == IF run.cancelled THEN loading0 ELSE FALSE

\* the components inside the auth gate that call useAuth
GatedOwners == {"InputModule", "FocusModule"}

\* lines 17-57: the effect runs as its component mounts; App mounts first, the others
\* inside the auth gate of App (App.tsx, lines 184-214)
useAuthMount(owner, thrown) ==
    /\ Len(authEffects) < MaxAuthEffects
    /\ IF owner = "App" THEN authEffects = <<>>
       ELSE /\ authEffects # <<>>
            /\ ~storeLoading
            /\ user # NullId
            /\ \A i \in 1..Len(authEffects) :
                  authEffects[i].owner = owner => authEffects[i].cancelled
    /\ authEffects' = Append(authEffects, EffectRun(owner, thrown))
    /\ storeLoading' = IF thrown THEN Done(EffectRun(owner, thrown), storeLoading)
                       ELSE storeLoading
    /\ UNCHANGED <<user, session, delivered, elapsed, callVars, pvars, gvars, fvars, ivars, svars, tvars>>

\* lines 59-63 and 17-57: StrictMode (src/index.tsx, lines 29-35) cleans the run up and
\* runs the effect again as the component mounts, before any callback of the run
strictRemount(i, thrown) ==
    /\ Len(authEffects) < MaxAuthEffects
    /\ i = Len(authEffects)
    /\ authEffects[i] = EffectRun(authEffects[i].owner, FALSE)
    /\ i > 1 => ~(authEffects[i - 1].cancelled /\ authEffects[i - 1].owner = authEffects[i].owner)
    /\ authEffects' = Append([authEffects EXCEPT ![i] = CleanedUp(@)],
                             EffectRun(authEffects[i].owner, thrown))
    /\ storeLoading' = IF thrown THEN Done(EffectRun(authEffects[i].owner, thrown), storeLoading)
                       ELSE storeLoading
    /\ UNCHANGED <<user, session, delivered, elapsed, callVars, pvars, gvars, fvars, ivars, svars, tvars>>

\* lines 59-63: a component inside the gate unmounts
useAuthUnmount(i) ==
    /\ authEffects[i].owner # "App"
    /\ ~authEffects[i].cancelled
    /\ authEffects' = [authEffects EXCEPT ![i] = CleanedUp(@)]
    /\ UNCHANGED <<user, session, delivered, storeLoading, elapsed, callVars, pvars, gvars, fvars, ivars, svars, tvars>>

\* lines 25-29: the timer of a run fires
authTimeout(i) ==
    /\ authEffects[i].timer = "armed"
    /\ elapsed >= authEffects[i].due
    /\ session' = NullId
    /\ user' = NullId
    /\ storeLoading' = Done(authEffects[i], storeLoading)
    /\ authEffects' = [authEffects EXCEPT ![i].timer = "fired"]
    /\ UNCHANGED <<delivered, elapsed, callVars, pvars, gvars, fvars, ivars, svars, tvars>>

\* lines 44-47: the finally of the getSession call of a run
GetSessionSettled(i) ==
    /\ storeLoading' = Done(authEffects[i], storeLoading)
    /\ authEffects' = [authEffects EXCEPT ![i].getSession = "settled",
                                          ![i].timer = IF @ = "armed" THEN "cleared" ELSE @]

\* lines 31-37 and 44-47: getSession resolves with the session s or with null
getSessionResolves(i, s) ==
    /\ authEffects[i].getSession = "pending"
    /\ IF authEffects[i].cancelled THEN UNCHANGED <<session, user, delivered>>
       ELSE /\ session' = s
            /\ user' = UserOf(s)
            /\ delivered' = (delivered /\ s # NullId)
    /\ GetSessionSettled(i)
    /\ UNCHANGED <<elapsed, callVars, pvars, gvars, fvars, ivars, svars, tvars>>

\* lines 38-47: getSession rejects
getSessionRejects(i) ==
    /\ authEffects[i].getSession = "pending"
    /\ IF authEffects[i].cancelled THEN UNCHANGED <<session, user, delivered>>
       ELSE /\ session' = NullId
            /\ user' = NullId
            /\ delivered' = FALSE
    /\ GetSessionSettled(i)
    /\ UNCHANGED <<elapsed, callVars, pvars, gvars, fvars, ivars, svars, tvars>>

\* lines 50-53: the remote auth subsystem notifies the subscribers of a session change
onAuthStateChange(s) ==
    /\ \E i \in 1..Len(authEffects) : authEffects[i].subscribed
    /\ <<session, user>> # <<s, UserOf(s)>>
    /\ session' = s
    /\ user' = UserOf(s)
    /\ delivered' = (s # NullId)
    /\ UNCHANGED <<storeLoading, effectVars, callVars, pvars, gvars, fvars, ivars, svars, tvars>>

\* time passes; an armed timer fires when it is due, before more time passes
AuthTick ==
    /\ authEffects # <<>>
    /\ elapsed < MaxAuthTicks * AuthTickMs
    /\ \A i \in 1..Len(authEffects) :
          authEffects[i].timer = "armed" => elapsed < authEffects[i].due
    /\ elapsed' = elapsed + AuthTickMs
    /\ UNCHANGED <<user, session, delivered, storeLoading, authEffects, callVars, pvars, gvars, fvars, ivars, svars, tvars>>

\* the login screen is shown (App.tsx, lines 199-214)
LoginShown == authEffects # <<>> /\ ~storeLoading /\ user = NullId

\* the button Salir is shown (App.tsx, lines 216-236)
SignOutShown == authEffects # <<>> /\ ~storeLoading /\ user # NullId

\* App.tsx, lines 110-114 and 122-126: handleSignIn and handleSignUp up to their await
handleSign(op) ==
    /\ LoginShown
    /\ Len(authCalls) < MaxAuthCalls
    /\ authError' = NullId
    /\ authLoading' = TRUE
    /\ authCalls' = Append(authCalls, [op |-> op])
    /\ UNCHANGED <<user, session, delivered, storeLoading, effectVars, authSettled, pvars, gvars, fvars, ivars, svars, tvars>>

\* App.tsx, line 232: the button Salir calls signOut and drops its promise
clickSignOut ==
    /\ SignOutShown
    /\ Len(authCalls) < MaxAuthCalls
    /\ authCalls' = Append(authCalls, [op |-> "signOut"])
    /\ UNCHANGED <<user, session, delivered, storeLoading, effectVars, authSettled, authError, authLoading,
                   pvars, gvars, fvars, ivars, svars, tvars>>

\* lines 66-74: how the promise of signIn and of signUp settles, given the answer
SignOutcome(answer) ==
    IF answer.kind = "rejected" THEN Rejected(answer.error)
    ELSE IF answer.error # NullId THEN Rejected(answer.error)
    ELSE Resolved("undefined")

\* lines 76-78: how the promise of signOut settles, given the answer
SignOutOutcome(answer) ==
    IF answer.kind = "rejected" THEN Rejected(answer.error) ELSE Resolved("undefined")

\* lines 66-78: the outcome of the call
AuthOutcome(op, answer) == IF op = "signOut" THEN SignOutOutcome(answer) ELSE SignOutcome(answer)

\* lines 66-78 with App.tsx, lines 115-119 and 127-131: the remote call settles, and the
\* caller's catch and finally run
authCallSettles(i, answer) ==
    /\ authSettled' = [op |-> authCalls[i].op, answer |-> answer,
                       outcome |-> AuthOutcome(authCalls[i].op, answer)]
    /\ authCalls' = SubSeq(authCalls, 1, i - 1) \o SubSeq(authCalls, i + 1, Len(authCalls))
    /\ IF authCalls[i].op = "signOut" THEN UNCHANGED <<authError, authLoading>>
       ELSE /\ authError' = IF AuthOutcome(authCalls[i].op, answer).kind = "rejected"
                            THEN AuthOutcome(authCalls[i].op, answer).error ELSE authError
            /\ authLoading' = FALSE
    /\ UNCHANGED <<user, session, delivered, storeLoading, effectVars, pvars, gvars, fvars, ivars, svars, tvars>>

(***************************************************************************)
(* InputModule (src/components/FocusModule.tsx, lines 700-1262) inside the *)
(* views of App (src/App.tsx, lines 104-182).                              *)
(***************************************************************************)
\* the views of App
Views == {"input", "focus", "projects"}

\* what the speech recognition delivers and what the user types
SpokenTexts == {"comprar pan", "comprar pan y leche"}

\* what the user leaves in the text area
TypedTexts == {" ", "comprar pan"}

\* the state of InputModule as it mounts (lines 706-712)
InputModuleInit ==
    /\ processingState = "idle"
    /\ inputTranscript = ""
    /\ keyboardText = ""
    /\ finalPending = FALSE

\* InputModule and the views of App before anything has happened
InputAtRest ==
    /\ currentView = "input"
    /\ previousView = NullId
    /\ InputModuleInit
    /\ processes = <<>>
    /\ entries = 0
    /\ analyzeCalls = 0
    /\ insertBatches = 0
    /\ completeCalls = 0

viewVars == <<currentView, previousView>>

localVars == <<processingState, inputTranscript, keyboardText, finalPending>>

countVars == <<entries, analyzeCalls, insertBatches, completeCalls>>

\* App shows its views (App.tsx, lines 184-214)
SignedIn == ~storeLoading /\ user # NullId

\* InputModule is mounted (App.tsx, lines 164-165)
InputShown == SignedIn /\ currentView = "input"

\* the processAI calls once their InputModule has unmounted
Orphaned(ps) == [i \in 1..Len(ps) |-> [ps[i] EXCEPT !.live = FALSE]]

\* InputModule unmounts; the next one mounts with the state of lines 706-712
InputUnmounts ==
    /\ processingState' = "idle"
    /\ inputTranscript' = ""
    /\ keyboardText' = ""
    /\ finalPending' = FALSE

\* App.tsx, lines 134-137: handleInputComplete, which takes InputModule off the screen
handleInputComplete ==
    /\ previousView' = "input"
    /\ currentView' = "projects"
    /\ InputUnmounts

\* processAI without its finally (lines 1032-1038): the early return of lines 971-975
\* would leave the state reviewing_transcript and never signal the completion
ProcessAIStartsNoFinally(text, u, kt, pending) ==
    IF text = "" \/ u = NullId
    THEN /\ processingState' = "reviewing_transcript"
         /\ inputTranscript' = text
         /\ keyboardText' = kt
         /\ finalPending' = pending
         /\ UNCHANGED <<completeCalls, viewVars, processes, analyzeCalls>>
    ELSE /\ processes' = Append(processes, [pc |-> "analyze", live |-> TRUE])
         /\ analyzeCalls' = analyzeCalls + 1
         /\ processingState' = "synthesizing"
         /\ inputTranscript' = text
         /\ keyboardText' = kt
         /\ finalPending' = pending
         /\ UNCHANGED <<completeCalls, viewVars>>

\* lines 967-1045: the effect runs in the state synthesizing with the transcript text and
\* the user u of the render, and processAI runs up to its first await or, without a
\* transcript or a user, through its finally; kt and pending are the other state of the render
ProcessAIStarts(text, u, kt, pending) ==
    IF text = "" \/ u = NullId
    THEN /\ completeCalls' = completeCalls + 1
         /\ handleInputComplete
         /\ processes' = Orphaned(processes)
         /\ UNCHANGED analyzeCalls
    ELSE /\ processes' = Append(processes, [pc |-> "analyze", live |-> TRUE])
         /\ analyzeCalls' = analyzeCalls + 1
         /\ processingState' = "synthesizing"
         /\ inputTranscript' = text
         /\ keyboardText' = kt
         /\ finalPending' = pending
         /\ UNCHANGED <<completeCalls, viewVars>>

\* room for one more processAI call
MayStart == Len(processes) < MaxProcesses /\ analyzeCalls < MaxAnalyzeCalls

\* lines 728-736: the microphone button
handleMainAction ==
    /\ InputShown
    /\ processingState \in {"idle", "recording", "paused"}
    /\ processingState' = IF processingState = "recording" THEN "paused" ELSE "recording"
    /\ finalPending' = (processingState = "recording")
    /\ UNCHANGED <<inputTranscript, keyboardText, viewVars, processes, countVars,
                   pvars, gvars, fvars, avars, svars, tvars>>

\* lines 832-838: the recognition delivers the text; it was started on recording
\* (lines 844-845 and 887-889) and stopped on paused (lines 904-906), and a stopped
\* recognition delivers what it still holds
onresult(text) ==
    /\ InputShown
    /\ processingState = "recording" \/ finalPending
    /\ text # inputTranscript
    /\ IF processingState = "synthesizing"
       THEN /\ MayStart
            /\ ProcessAIStarts(text, user, keyboardText, FALSE)
       ELSE /\ inputTranscript' = text
            /\ finalPending' = FALSE
            /\ UNCHANGED <<processingState, keyboardText, viewVars, processes, analyzeCalls,
                           completeCalls>>
    /\ UNCHANGED <<entries, insertBatches, pvars, gvars, fvars, avars, svars, tvars>>

\* lines 738-749: the button Retake, shown on paused
handleRetake ==
    /\ InputShown
    /\ processingState = "paused"
    /\ processingState' = "idle"
    /\ inputTranscript' = ""
    /\ keyboardText' = ""
    /\ UNCHANGED <<finalPending, viewVars, processes, countVars, pvars, gvars, fvars, avars, svars, tvars>>

\* lines 758-761 and 967-1045: the button Finish, shown on paused, and the effect
handleFinish ==
    /\ InputShown
    /\ processingState = "paused"
    /\ entries < MaxEntries
    /\ MayStart
    /\ entries' = entries + 1
    /\ ProcessAIStarts(inputTranscript, user, keyboardText, finalPending)
    /\ UNCHANGED <<insertBatches, pvars, gvars, fvars, avars, svars, tvars>>

\* line 1239: the button that opens the text area
openKeyboard ==
    /\ InputShown
    /\ processingState = "idle"
    /\ processingState' = "typing"
    /\ UNCHANGED <<inputTranscript, keyboardText, finalPending, viewVars, processes, countVars,
                   pvars, gvars, fvars, avars, svars, tvars>>

\* line 1058: the user types in the text area of the state typing
changeKeyboardText(text) ==
    /\ InputShown
    /\ processingState = "typing"
    /\ text # keyboardText
    /\ keyboardText' = text
    /\ UNCHANGED <<processingState, inputTranscript, finalPending, viewVars, processes,
                   countVars, pvars, gvars, fvars, avars, svars, tvars>>

\* lines 1065-1068: the button Cancelar of the state typing
cancelTyping ==
    /\ InputShown
    /\ processingState = "typing"
    /\ processingState' = "idle"
    /\ UNCHANGED <<inputTranscript, keyboardText, finalPending, viewVars, processes, countVars,
                   pvars, gvars, fvars, avars, svars, tvars>>

\* lines 751-756 and 967-1045: the button Procesar and the effect
handleKeyboardSubmit ==
    /\ InputShown
    /\ processingState = "typing"
    /\ Trim(keyboardText) # ""
    /\ entries < MaxEntries
    /\ MayStart
    /\ entries' = entries + 1
    /\ ProcessAIStarts(keyboardText, user, keyboardText, finalPending)
    /\ UNCHANGED <<insertBatches, pvars, gvars, fvars, avars, svars, tvars>>

\* App.tsx, lines 157-160 with NavBar.tsx, line 24: a button of the navigation bar; App
\* renders again when its state changes, and hands InputModule a new handleInputComplete
\* (App.tsx, lines 134-137 and 165), on which the effect of lines 967-1045 depends; the
\* state synthesizing lasts only while a call with a transcript and a user is in flight,
\* so the call the effect starts goes on to analyzeTranscript
handleViewChange(view) ==
    /\ SignedIn
    /\ <<previousView, currentView>> # <<currentView, view>>
    /\ IF currentView = "input" /\ view = "input" /\ processingState = "synthesizing"
       THEN /\ MayStart
            /\ previousView' = currentView
            /\ currentView' = view
            /\ processes' = Append(processes, [pc |-> "analyze", live |-> TRUE])
            /\ analyzeCalls' = analyzeCalls + 1
            /\ UNCHANGED <<localVars, completeCalls>>
       ELSE /\ previousView' = currentView
            /\ currentView' = view
            /\ IF currentView = "input" /\ view # "input"
               THEN /\ InputUnmounts
                    /\ processes' = Orphaned(processes)
               ELSE UNCHANGED <<localVars, processes>>
            /\ UNCHANGED <<analyzeCalls, completeCalls>>
    /\ UNCHANGED <<entries, insertBatches, pvars, gvars, fvars, avars, svars, tvars>>

\* App.tsx, lines 139-142: the button that starts the work, on the view projects
handleStartWork ==
    /\ SignedIn
    /\ currentView = "projects"
    /\ previousView' = "projects"
    /\ currentView' = "focus"
    /\ UNCHANGED <<localVars, processes, countVars, pvars, gvars, fvars, avars, svars, tvars>>

\* App.tsx, lines 144-147: the back button of the view projects, shown after a capture
handleBackToInput ==
    /\ SignedIn
    /\ currentView = "projects"
    /\ previousView = "input"
    /\ currentView' = "input"
    /\ previousView' = NullId
    /\ UNCHANGED <<localVars, processes, countVars, pvars, gvars, fvars, avars, svars, tvars>>

\* App.tsx, lines 149-155: the view focus asks for the view projects
handleNavigateToProjects ==
    /\ SignedIn
    /\ currentView = "focus"
    /\ previousView' = "focus"
    /\ currentView' = "projects"
    /\ UNCHANGED <<localVars, processes, countVars, pvars, gvars, fvars, avars, svars, tvars>>

\* src/unnamed/part_002, lines 50-53, with lines 964-1045: an auth event hands the store a
\* new session and a new user object; without a user App shows the login screen, with one
\* InputModule renders again and the effect, which depends on user, runs again
userObjectChanges(s) ==
    /\ SignedIn
    /\ \E i \in 1..Len(authEffects) : authEffects[i].subscribed
    /\ session' = s
    /\ user' = UserOf(s)
    /\ delivered' = (s # NullId)
    /\ IF s = NullId
       THEN /\ InputUnmounts
            /\ processes' = Orphaned(processes)
            /\ UNCHANGED <<analyzeCalls, completeCalls, viewVars>>
       ELSE IF currentView = "input" /\ processingState = "synthesizing"
       THEN /\ MayStart
            /\ ProcessAIStarts(inputTranscript, UserOf(s), keyboardText, finalPending)
       ELSE UNCHANGED <<localVars, processes, analyzeCalls, completeCalls, viewVars>>
    /\ UNCHANGED <<storeLoading, effectVars, callVars, entries, insertBatches,
                   pvars, gvars, fvars, svars, tvars>>

\* line 977 and src/lib/groq.ts, lines 26-122: analyzeTranscript resolves (it never
\* rejects), and the inserts of lines 984-1028 start
analyzeSettles(i) ==
    /\ processes[i].pc = "analyze"
    /\ processes' = [processes EXCEPT ![i].pc = "inserts"]
    /\ insertBatches' = insertBatches + 1
    /\ UNCHANGED <<localVars, viewVars, entries, analyzeCalls, completeCalls,
                   pvars, gvars, fvars, avars, svars, tvars>>

\* lines 984-1038: the inserts end, by the last one settling or by one rejecting, and the
\* finally sets the state idle (of a mounted InputModule) and calls the onProcessComplete
\* of the render that started the call
insertsSettle(i) ==
    /\ processes[i].pc = "inserts"
    /\ completeCalls' = completeCalls + 1
    /\ handleInputComplete
    /\ processes' = Orphaned(SubSeq(processes, 1, i - 1) \o SubSeq(processes, i + 1, Len(processes)))
    /\ UNCHANGED <<entries, analyzeCalls, insertBatches, pvars, gvars, fvars, avars, svars, tvars>>

(***************************************************************************)
(* FocusModule (src/components/ProjectsModule.tsx, lines 653-1456).        *)
(* A Task is modelled by the two fields the handlers read, id and project. *)
(* A Record<string, T> is the function from its keys to their values.      *)
(* The remote tables change only through this component.                   *)
(***************************************************************************)
\* line 1015
threshold == 100

\* the values handlePointerMove sets dragX to: around both ends of the threshold
DragValues == {-(threshold + 1), -threshold, 0, threshold, threshold + 1}

gestureVars == <<dragX, isDragging, animatingOut, snappedBack>>

remoteVars == <<dbProjects, dbTasks>>

fetchVars == <<fetchPc, projectsData, queryError, loading>>

bucketVars == <<selectedProject, projectsState, initialCounts>>

\* the object {}
EmptyRecord == [k \in {} |-> <<>>]

\* {...f, [k]: v}
Put(f, k, v) == [x \in DOMAIN f \cup {k} |-> IF x = k THEN v ELSE f[x]]

\* f after delete f[k]
Drop(f, k) == [x \in DOMAIN f \ {k} |-> f[x]]

\* arr after arr.splice(i, 1), i being a place of arr (1-based)
RemoveAt(arr, i) == SubSeq(arr, 1, i - 1) \o SubSeq(arr, i + 1, Len(arr))

\* tasks.filter(t => t.id !== id)
FilterOutTask(tasks, id) == SelectSeq(tasks, LAMBDA t : t.id # id)

\* the remote rows the model starts from
ProjectRow(name) == [id |-> "id-" \o name, name |-> name]

TaskRow(id, name) == [id |-> id, project_id |-> "id-" \o name]

RemoteTasks(name, n) == [k \in 1..n |-> TaskRow(name \o ToString(k), name)]

\* lines 734-753: the rows grouped by project name, after the empty bucket Hoy; a later
\* project of the same name overwrites an earlier one
Grouped(pd, td) ==
    [name \in {"Hoy"} \cup { pd[i].name : i \in 1..Len(pd) } |->
        IF \E i \in 1..Len(pd) : pd[i].name = name
        THEN LET last == CHOOSE i \in 1..Len(pd) :
                            pd[i].name = name /\ \A m \in (i + 1)..Len(pd) : pd[m].name # name
                 rows == SelectSeq(td, LAMBDA t : t.project_id = pd[last].id)
             IN  [k \in 1..Len(rows) |-> [id |-> rows[k].id, project |-> name]]
        ELSE <<>>]

\* lines 737-738 and 752: the number of tasks per bucket at load
Counts(grouped) == [name \in DOMAIN grouped |-> Len(grouped[name])]

\* lines 780-792: the effect that runs when selectedProject has changed to sel
Cleanup(state, sel, counts) ==
    [name \in { k \in DOMAIN state :
                  ~(k # "Hoy" /\ k # sel /\ state[k] = <<>>
                    /\ k \in DOMAIN counts /\ counts[k] > 0) } |-> state[name]]

\* lines 795-798: the chips
FocusChips == {"Hoy"} \cup DOMAIN projectsState

\* lines 800-804
currentProjectTasks ==
    IF selectedProject \in DOMAIN projectsState THEN projectsState[selectedProject] ELSE <<>>

totalInitialTasks ==
    IF selectedProject \in DOMAIN initialCounts THEN initialCounts[selectedProject] ELSE 0

isHoyEmpty == selectedProject = "Hoy" /\ currentProjectTasks = <<>> /\ totalInitialTasks = 0

\* a completed state that forgets the initial count (the code does not do this)
isProjectCompletedWhenEmpty == ~isHoyEmpty /\ currentProjectTasks = <<>>

isProjectCompleted == ~isHoyEmpty /\ currentProjectTasks = <<>> /\ totalInitialTasks > 0

\* the front card is rendered (lines 1372-1383)
FrontCard == ~loading /\ currentProjectTasks # <<>>

\* the buttons No ahora and Hecho are rendered (line 1434)
ButtonsShown == ~isProjectCompleted /\ ~isHoyEmpty

\* no analysis is being saved
SaveAtRest ==
    /\ analysisResult = [projects |-> <<>>, tasks |-> <<>>]
    /\ savePc = "done"
    /\ saveIndex = 0
    /\ projectMap = EmptyRecord
    /\ returned = <<>>
    /\ issued = <<>>

\* the component with no user signed in: fetchData returns at line 690
FocusAtRest ==
    /\ selectedProject = "Hoy"
    /\ projectsState = EmptyRecord
    /\ initialCounts = EmptyRecord
    /\ dragX = 0
    /\ isDragging = FALSE
    /\ animatingOut = "null"
    /\ snappedBack = FALSE
    /\ loading = TRUE
    /\ crashed = FALSE
    /\ dbProjects = <<>>
    /\ dbTasks = <<>>
    /\ fetchPc = "done"
    /\ projectsData = <<>>
    /\ queryError = <<>>
    /\ remoteOk = TRUE
    /\ completions = <<>>
    /\ timers = <<>>
    /\ sessions = 0

\* the component as mounted for a signed-in user: fetchData awaits its first query; the
\* first remote project has 1 to most task rows
InitFocusWith(most) ==
    /\ ProjectsAtRest
    /\ GroqAtRest
    /\ AuthAtRest
    /\ InputAtRest
    /\ SaveAtRest
    /\ selectedProject = "Hoy"
    /\ projectsState = EmptyRecord
    /\ initialCounts = EmptyRecord
    /\ dragX = 0
    /\ isDragging = FALSE
    /\ animatingOut = "null"
    /\ snappedBack = FALSE
    /\ loading = TRUE
    /\ crashed = FALSE
    /\ dbProjects = <<ProjectRow("A"), ProjectRow("B")>>
    /\ \E na \in 1..most, nb \in 0..MaxOtherTasks :
          dbTasks = RemoteTasks("A", na) \o RemoteTasks("B", nb)
    /\ fetchPc = "projects"
    /\ projectsData = <<>>
    /\ queryError = <<>>
    /\ remoteOk = TRUE
    /\ completions = <<>>
    /\ timers = <<>>
    /\ sessions = 0

\* the names of the project rows of a user, who may have given a name twice (the inserts
\* of processAI do not look for a row of the same name) or have named a project Hoy
RowNames == {"A", "B", "Hoy"}

\* the ids of the rows of a table, by place
RowIds(n) == [k \in 1..n |-> "row-" \o ToString(k)]

\* the project rows of a user: distinct ids, any names
ProjectRows == { [k \in 1..Len(names) |-> [id |-> RowIds(Len(names))[k], name |-> names[k]]] :
                    names \in SeqsUpTo(RowNames, MaxGroupProjects) }

\* the todo task rows of a user: distinct ids, each of a project row or of a project
\* that is not fetched
TaskRowsOf(pd) ==
    { [k \in 1..Len(owners) |-> [id |-> "task-" \o ToString(k), project_id |-> owners[k]]] :
         owners \in SeqsUpTo({ pd[i].id : i \in 1..Len(pd) } \cup {"row-0"}, MaxGroupTasks) }

\* the component as mounted for a signed-in user with any project and task rows
InitGroup ==
    /\ ProjectsAtRest
    /\ GroqAtRest
    /\ AuthAtRest
    /\ InputAtRest
    /\ SaveAtRest
    /\ selectedProject = "Hoy"
    /\ projectsState = EmptyRecord
    /\ initialCounts = EmptyRecord
    /\ dragX = 0
    /\ isDragging = FALSE
    /\ animatingOut = "null"
    /\ snappedBack = FALSE
    /\ loading = TRUE
    /\ crashed = FALSE
    /\ dbProjects \in ProjectRows
    /\ dbTasks \in TaskRowsOf(dbProjects)
    /\ fetchPc = "projects"
    /\ projectsData = <<>>
    /\ queryError = <<>>
    /\ remoteOk = TRUE
    /\ completions = <<>>
    /\ timers = <<>>
    /\ sessions = 0

\* a PostgrestError: its code and the words of its message
QueryErrors ==
    { [code |-> "42703", message |-> <<"column", "projects", "sort_order", "does", "not", "exist">>],
      [code |-> "42703", message |-> <<"column", "created_at", "does", "not", "exist">>],
      [code |-> "PGRST204", message |-> <<"could", "not", "find", "the", "sort_order", "column">>],
      [code |-> "PGRST301", message |-> <<"JWT", "expired">>] }

\* message.includes(word), on the words of the message
Includes(message, word) == \E k \in 1..Len(message) : message[k] = word

\* a test that looks at the error code only (the code does not do this)
SortOrderMissingByCode(error) == error # <<>> /\ error.code = "42703"

\* lines 703 and 724: the error says that the column sort_order is missing
SortOrderMissing(error) ==
    error # <<>> /\ (error.code = "42703" \/ Includes(error.message, "sort_order"))

\* a fetchData that takes a failed query for one without rows and groups all the same
FetchFailedGrouping ==
    /\ projectsState' = Grouped(projectsData, <<>>)
    /\ initialCounts' = Counts(Grouped(projectsData, <<>>))
    /\ selectedProject' = "Hoy"
    /\ fetchPc' = "done"
    /\ loading' = FALSE
    /\ UNCHANGED projectsData

\* the catch and finally blocks of fetchData (lines 768-772)
FetchFailed ==
    /\ fetchPc' = "done"
    /\ loading' = FALSE
    /\ UNCHANGED <<projectsData, bucketVars>>

\* lines 731-766 and 770-772, with the task rows td
FetchGrouped(td) ==
    /\ projectsState' = Grouped(projectsData, td)
    /\ initialCounts' = Counts(Grouped(projectsData, td))
    /\ selectedProject' = IF selectedProject # "Hoy"
                             /\ selectedProject \notin DOMAIN Grouped(projectsData, td)
                          THEN "Hoy" ELSE selectedProject
    /\ fetchPc' = "done"
    /\ loading' = FALSE
    /\ UNCHANGED projectsData

\* lines 694-703 and 713: the projects query settles
fetchProjectsSettles ==
    /\ ~crashed
    /\ fetchPc = "projects"
    /\ \E error \in {<<>>} \cup QueryErrors :
          /\ queryError' = error
          /\ IF SortOrderMissing(error)
             THEN /\ fetchPc' = "projectsFallback"
                  /\ UNCHANGED <<projectsData, loading, bucketVars>>
             ELSE IF error # <<>>
             THEN FetchFailed
             ELSE /\ projectsData' = dbProjects
                  /\ fetchPc' = "tasks"
                  /\ UNCHANGED <<loading, bucketVars>>
    /\ UNCHANGED <<gestureVars, remoteVars, remoteOk, crashed, completions, timers, sessions, pvars, gvars, avars, ivars, svars, tvars>>

\* lines 704-713: the projects query without sort_order settles
fetchProjectsFallbackSettles ==
    /\ ~crashed
    /\ fetchPc = "projectsFallback"
    /\ \E error \in {<<>>} \cup QueryErrors :
          /\ queryError' = error
          /\ IF error # <<>>
             THEN FetchFailed
             ELSE /\ projectsData' = dbProjects
                  /\ fetchPc' = "tasks"
                  /\ UNCHANGED <<loading, bucketVars>>
    /\ UNCHANGED <<gestureVars, remoteVars, remoteOk, crashed, completions, timers, sessions, pvars, gvars, avars, ivars, svars, tvars>>

\* lines 715-724 and 735-772: the tasks query settles
fetchTasksSettles ==
    /\ ~crashed
    /\ fetchPc = "tasks"
    /\ \E error \in {<<>>} \cup QueryErrors :
          /\ queryError' = error
          /\ IF SortOrderMissing(error)
             THEN /\ fetchPc' = "tasksFallback"
                  /\ UNCHANGED <<projectsData, loading, bucketVars>>
             ELSE IF error # <<>>
             THEN FetchFailed
             ELSE FetchGrouped(dbTasks)
    /\ UNCHANGED <<gestureVars, remoteVars, remoteOk, crashed, completions, timers, sessions, pvars, gvars, avars, ivars, svars, tvars>>

\* lines 725-772: the tasks query without sort_order settles
fetchTasksFallbackSettles ==
    /\ ~crashed
    /\ fetchPc = "tasksFallback"
    /\ \E error \in {<<>>} \cup QueryErrors :
          /\ queryError' = error
          /\ IF error # <<>> THEN FetchFailed ELSE FetchGrouped(dbTasks)
    /\ UNCHANGED <<gestureVars, remoteVars, remoteOk, crashed, completions, timers, sessions, pvars, gvars, avars, ivars, svars, tvars>>

\* lines 689-692 and 775-777: the store hands the component a new user object and the
\* effect calls fetchData again, here after the call before it has ended
fetchData ==
    /\ ~crashed
    /\ fetchPc = "done"
    /\ loading' = TRUE
    /\ fetchPc' = "projects"
    /\ projectsData' = <<>>
    /\ queryError' = <<>>
    /\ UNCHANGED <<bucketVars, gestureVars, remoteVars, remoteOk, crashed, completions, timers, sessions,
                   pvars, gvars, avars, ivars, svars, tvars>>

\* lines 815-818 and 1221, with the effect of lines 780-792
handleProjectClick(projectName) ==
    /\ ~crashed
    /\ projectName \in FocusChips
    /\ projectName # selectedProject
    /\ selectedProject' = projectName
    /\ projectsState' = Cleanup(projectsState, projectName, initialCounts)
    /\ UNCHANGED <<initialCounts, gestureVars, remoteVars, remoteOk, fetchVars, crashed, completions,
                   timers, sessions, pvars, gvars, avars, ivars, svars, tvars>>

\* the order Object.values visits the buckets in: Hoy, then the projects as loaded
BucketOrder == <<"Hoy">> \o [i \in 1..Len(projectsData) |-> projectsData[i].name]

\* lines 829-830: every task of every bucket
AllTasks(state) ==
    LET RECURSIVE Cat(_)
        Cat(i) == IF i = 0 THEN <<>>
                  ELSE Cat(i - 1) \o (IF BucketOrder[i] \in DOMAIN state
                                      THEN state[BucketOrder[i]] ELSE <<>>)
    IN  Cat(Len(BucketOrder))

\* the ids of the tasks listed for selection
LocalTaskIds == { AllTasks(projectsState)[k].id : k \in 1..Len(AllTasks(projectsState)) }

\* lines 827-843 with the tasks of selectedTaskIds, then the effect of lines 780-792
handleStartCustomSession(selectedTaskIds) ==
    /\ ~crashed
    /\ sessions < MaxSessions
    /\ selectedTaskIds # {}
    /\ LET tasksForToday == SelectSeq(AllTasks(projectsState), LAMBDA t : t.id \in selectedTaskIds)
           counts == Put(initialCounts, "Hoy", Len(tasksForToday))
           state == Put(projectsState, "Hoy", tasksForToday)
       IN  /\ initialCounts' = counts
           /\ projectsState' = IF selectedProject # "Hoy" THEN Cleanup(state, "Hoy", counts)
                               ELSE state
    /\ selectedProject' = "Hoy"
    /\ sessions' = sessions + 1
    /\ UNCHANGED <<gestureVars, remoteVars, remoteOk, fetchVars, crashed, completions, timers, pvars, gvars, avars, ivars, svars, tvars>>

\* lines 999-1004, on the front card
handlePointerDown ==
    /\ ~crashed
    /\ FrontCard
    /\ ~isDragging
    /\ ~(isProjectCompleted \/ isHoyEmpty \/ animatingOut # "null")
    /\ isDragging' = TRUE
    /\ snappedBack' = FALSE
    /\ UNCHANGED <<dragX, animatingOut, bucketVars, remoteVars, remoteOk, fetchVars, crashed, completions,
                   timers, sessions, pvars, gvars, avars, ivars, svars, tvars>>

\* lines 1006-1011, on the front card
handlePointerMove(delta) ==
    /\ ~crashed
    /\ FrontCard
    /\ isDragging
    /\ dragX # delta
    /\ dragX' = delta
    /\ snappedBack' = FALSE
    /\ UNCHANGED <<isDragging, animatingOut, bucketVars, remoteVars, remoteOk, fetchVars, crashed,
                   completions, timers, sessions, pvars, gvars, avars, ivars, svars, tvars>>

\* lines 900-910: completeTask up to its first await
CompleteTaskCall ==
    IF currentProjectTasks = <<>>
    THEN UNCHANGED <<animatingOut, completions>>
    ELSE /\ animatingOut' = "right"
         /\ completions' = Append(completions,
                                  [task |-> Head(currentProjectTasks),
                                   selectedProject |-> selectedProject,
                                   pc |-> "delete", projectId |-> ""])

\* lines 983-986: skipTask up to its timeout
SkipTaskCall ==
    IF Len(currentProjectTasks) <= 1
    THEN UNCHANGED <<animatingOut, timers>>
    ELSE /\ animatingOut' = "left"
         /\ timers' = Append(timers, [kind |-> "skip", selectedProject |-> selectedProject])

\* a release that completes at the threshold itself (the code does not do this)
SwipedRightInclusive == dragX >= threshold

\* line 1017: the card was released beyond the threshold on the right
SwipedRight == dragX > threshold

\* line 1019: the card was released beyond the threshold on the left
SwipedLeft == dragX < -threshold

\* lines 1013-1024: mouse up, mouse leave and touch end of the front card
handlePointerUp ==
    /\ ~crashed
    /\ FrontCard
    /\ isDragging' = FALSE
    /\ IF SwipedRight
       THEN /\ Len(completions) < MaxInFlight
            /\ CompleteTaskCall
            /\ snappedBack' = FALSE
            /\ UNCHANGED <<dragX, timers>>
       ELSE IF SwipedLeft
       THEN /\ Len(timers) < MaxTimers
            /\ SkipTaskCall
            /\ snappedBack' = FALSE
            /\ UNCHANGED <<dragX, completions>>
       ELSE /\ dragX' = 0
            /\ snappedBack' = TRUE
            /\ UNCHANGED <<animatingOut, completions, timers>>
    /\ UNCHANGED <<bucketVars, remoteVars, remoteOk, fetchVars, crashed, sessions, pvars, gvars, avars, ivars, svars, tvars>>

\* the button Hecho (line 1444)
completeTask ==
    /\ ~crashed
    /\ ButtonsShown
    /\ currentProjectTasks # <<>>
    /\ Len(completions) < MaxInFlight
    /\ CompleteTaskCall
    /\ UNCHANGED <<dragX, isDragging, snappedBack, timers, bucketVars, remoteVars, remoteOk, fetchVars, crashed,
                   sessions, pvars, gvars, avars, ivars, svars, tvars>>

\* the button No ahora (line 1437)
skipTask ==
    /\ ~crashed
    /\ ButtonsShown
    /\ Len(currentProjectTasks) > 1
    /\ Len(timers) < MaxTimers
    /\ SkipTaskCall
    /\ UNCHANGED <<dragX, isDragging, snappedBack, completions, bucketVars, remoteVars, remoteOk, fetchVars, crashed,
                   sessions, pvars, gvars, avars, ivars, svars, tvars>>

\* lines 917-941: the state updater of the call c, run on prev
AfterCompletion(prev, c) ==
    LET sliced == Put(prev, c.selectedProject, Tail(prev[c.selectedProject]))
        projectName == c.task.project
    IN  IF c.selectedProject = "Hoy" /\ projectName \in DOMAIN sliced
        THEN Put(sliced, projectName, FilterOutTask(sliced[projectName], c.task.id))
        ELSE IF "Hoy" \in DOMAIN sliced
        THEN Put(sliced, "Hoy", FilterOutTask(sliced["Hoy"], c.task.id))
        ELSE sliced

\* slice(1) of an empty array is the empty array
SliceOne(prev, c) ==
    IF prev[c.selectedProject] = <<>> THEN prev ELSE AfterCompletion(prev, c)

\* lines 972-975: the call i arms its timeout and returns
Finish(i) ==
    /\ Len(timers) < MaxTimers
    /\ timers' = Append(timers, [kind |-> "done", selectedProject |-> ""])
    /\ completions' = RemoveAt(completions, i)

\* lines 909-941 and 976-979: the remote delete of the task settles.  A state update
\* of the unmounted tree does nothing, and a throw of the updater unmounts the tree
\* while the call goes on.
completeDeleteSettles(i) ==
    /\ completions[i].pc = "delete"
    /\ \E ok \in BOOLEAN :
          /\ remoteOk' = ok
          /\ IF ~ok
             THEN /\ animatingOut' = IF crashed THEN animatingOut ELSE "null"
                  /\ completions' = RemoveAt(completions, i)
                  /\ UNCHANGED <<dbTasks, projectsState, crashed>>
             ELSE /\ dbTasks' = SelectSeq(dbTasks, LAMBDA t : t.id # completions[i].task.id)
                  /\ completions' = [completions EXCEPT ![i].pc = "select"]
                  /\ IF crashed
                     THEN UNCHANGED <<projectsState, crashed>>
                     ELSE IF completions[i].selectedProject \in DOMAIN projectsState
                     THEN /\ projectsState' = SliceOne(projectsState, completions[i])
                          /\ UNCHANGED crashed
                     ELSE /\ crashed' = TRUE
                          /\ UNCHANGED projectsState
                  /\ UNCHANGED animatingOut
    /\ UNCHANGED <<dragX, isDragging, snappedBack, selectedProject, initialCounts, dbProjects, fetchVars,
                   timers, sessions, pvars, gvars, avars, ivars, svars, tvars>>

\* lines 944-951: the select of the project row settles
completeSelectSettles(i) ==
    /\ completions[i].pc = "select"
    /\ LET rows == SelectSeq(dbProjects, LAMBDA p : p.name = completions[i].task.project)
       IN  \E ok \in BOOLEAN :
              /\ remoteOk' = ok
              /\ IF ok /\ Len(rows) = 1
                 THEN /\ completions' = [completions EXCEPT ![i].pc = "count",
                                                            ![i].projectId = rows[1].id]
                      /\ UNCHANGED timers
                 ELSE Finish(i)
    /\ UNCHANGED <<gestureVars, bucketVars, remoteVars, fetchVars, crashed, sessions, pvars, gvars, avars, ivars, svars, tvars>>

\* a check that deletes the project whatever the count (the code does not do this)
ShouldDeleteProjectAlways(ok, count) == ok

\* line 958: the project is deleted when the count came back as zero
ShouldDeleteProject(ok, count) == ok /\ count = 0

\* lines 952-957: the count of the project's task rows settles
completeCountSettles(i) ==
    /\ completions[i].pc = "count"
    /\ LET count == Len(SelectSeq(dbTasks, LAMBDA t : t.project_id = completions[i].projectId))
       IN  \E ok \in BOOLEAN :
              /\ remoteOk' = ok
              /\ IF ShouldDeleteProject(ok, count)
                 THEN /\ completions' = [completions EXCEPT ![i].pc = "projectDelete"]
                      /\ UNCHANGED timers
                 ELSE Finish(i)
    /\ UNCHANGED <<gestureVars, bucketVars, remoteVars, fetchVars, crashed, sessions, pvars, gvars, avars, ivars, svars, tvars>>

\* lines 958-969: the delete of the project row settles; its error is not looked at
completeProjectDeleteSettles(i) ==
    /\ completions[i].pc = "projectDelete"
    /\ \E ok \in BOOLEAN :
          /\ remoteOk' = ok
          /\ dbProjects' = IF ok THEN SelectSeq(dbProjects, LAMBDA p : p.id # completions[i].projectId)
                           ELSE dbProjects
    /\ projectsState' = IF ~crashed /\ completions[i].task.project # completions[i].selectedProject
                        THEN Drop(projectsState, completions[i].task.project)
                        ELSE projectsState
    /\ Finish(i)
    /\ UNCHANGED <<gestureVars, selectedProject, initialCounts, dbTasks, fetchVars, crashed,
                   sessions, pvars, gvars, avars, ivars, svars, tvars>>

\* lines 972-975: the timeout of a completeTask call
completeTimeout ==
    /\ timers # <<>>
    /\ Head(timers).kind = "done"
    /\ timers' = Tail(timers)
    /\ IF crashed THEN UNCHANGED <<animatingOut, dragX>>
       ELSE /\ animatingOut' = "null"
            /\ dragX' = 0
    /\ UNCHANGED <<isDragging, snappedBack, bucketVars, remoteVars, remoteOk, fetchVars, crashed, completions,
                   sessions, pvars, gvars, avars, ivars, svars, tvars>>

\* a skip that exchanges the first two tasks (the code does not do this)
RotatedSwapped(prev, sel) ==
    IF Len(prev[sel]) < 2 THEN prev
    ELSE Put(prev, sel, <<prev[sel][2], prev[sel][1]>> \o SubSeq(prev[sel], 3, Len(prev[sel])))

\* lines 987-992: the first task of the bucket goes to its end
Rotated(prev, sel) ==
    IF prev[sel] = <<>> THEN prev ELSE Put(prev, sel, Append(Tail(prev[sel]), Head(prev[sel])))

\* lines 986-994: the timeout of a skipTask call
skipTimeout ==
    /\ timers # <<>>
    /\ Head(timers).kind = "skip"
    /\ timers' = Tail(timers)
    /\ IF crashed
       THEN UNCHANGED <<projectsState, animatingOut, dragX, crashed>>
       ELSE IF Head(timers).selectedProject \in DOMAIN projectsState
       THEN /\ projectsState' = Rotated(projectsState, Head(timers).selectedProject)
            /\ animatingOut' = "null"
            /\ dragX' = 0
            /\ UNCHANGED crashed
       ELSE /\ crashed' = TRUE
            /\ UNCHANGED <<projectsState, animatingOut, dragX>>
    /\ UNCHANGED <<isDragging, snappedBack, selectedProject, initialCounts, remoteVars, remoteOk, fetchVars,
                   completions, sessions, pvars, gvars, avars, ivars, svars, tvars>>

(***************************************************************************)
(* processAI: the inserts (src/components/FocusModule.tsx, lines 981-1028).*)
(* A project of the result is modelled by its name, a task by its          *)
(* project_name; the id a project insert returns is the place of the row.  *)
(***************************************************************************)
\* the names the analysis gives to projects
BatchNames == {"", "Casa", "Viaje"}

\* the project_name the analysis gives to tasks
BatchTaskNames == BatchNames \cup {NullId, "Otro"}

\* lines 1001 and 1017: the loop over the tasks goes on at index i, or the last inserts follow
AfterTasks(i) == IF i < Len(analysisResult.tasks) THEN <<"tasks", i>> ELSE <<"history", 0>>

\* lines 984 and 1001: the loop over the projects goes on at index i, or the next loop starts
AfterProjects(i) == IF i < Len(analysisResult.projects) THEN <<"projects", i>> ELSE AfterTasks(0)

\* lines 977-984: analyzeTranscript has resolved with a result and the first loop starts
SaveStarts ==
    /\ analysisResult \in [projects : SeqsUpTo(BatchNames, MaxBatchProjects),
                           tasks : SeqsUpTo(BatchTaskNames, MaxBatchTasks)]
    /\ savePc = AfterProjects(0)[1]
    /\ saveIndex = AfterProjects(0)[2]
    /\ projectMap = EmptyRecord
    /\ returned = <<>>
    /\ issued = <<>>

\* what a remote insert settles with
InsertAnswers == {"data", "error", "rejected"}

\* the id of the row that the insert of the project at index i returns
RowId(i) == <<"uuid-1", "uuid-2", "uuid-3", "uuid-4">>[i + 1]

\* lines 984-998: the insert of the next project settles; data sets the name in the map
insertProject(answer) ==
    /\ savePc = "projects"
    /\ saveIndex < Len(analysisResult.projects)
    /\ issued' = Append(issued, [table |-> "projects", index |-> saveIndex,
                                 project_id |-> NullId, answer |-> answer])
    /\ returned' = Append(returned, IF answer = "data" THEN RowId(saveIndex) ELSE NullId)
    /\ projectMap' = IF answer = "data"
                     THEN Put(projectMap, analysisResult.projects[saveIndex + 1], RowId(saveIndex))
                     ELSE projectMap
    /\ IF answer = "rejected"
       THEN /\ savePc' = "done"
            /\ UNCHANGED saveIndex
       ELSE /\ savePc' = AfterProjects(saveIndex + 1)[1]
            /\ saveIndex' = AfterProjects(saveIndex + 1)[2]
    /\ UNCHANGED <<analysisResult, pvars, gvars, fvars, avars, ivars, tvars>>

\* a lookup that never finds the project (the code does not do this)
TaskProjectIdNever(map, name) == NullId

\* line 1002: t.project_name ? projectMap.get(t.project_name) : null; the undefined of
\* a name that is not in the map is left out of the row, which leaves the column null
TaskProjectId(map, name) ==
    IF name = NullId \/ name = "" THEN NullId
    ELSE IF name \in DOMAIN map THEN map[name]
    ELSE NullId

\* lines 1001-1015: the insert of the next task settles
insertTask(answer) ==
    /\ savePc = "tasks"
    /\ saveIndex < Len(analysisResult.tasks)
    /\ issued' = Append(issued, [table |-> "tasks", index |-> saveIndex,
                                 project_id |-> TaskProjectId(projectMap,
                                                    analysisResult.tasks[saveIndex + 1]),
                                 answer |-> answer])
    /\ IF answer = "rejected"
       THEN /\ savePc' = "done"
            /\ UNCHANGED saveIndex
       ELSE /\ savePc' = AfterTasks(saveIndex + 1)[1]
            /\ saveIndex' = AfterTasks(saveIndex + 1)[2]
    /\ UNCHANGED <<analysisResult, projectMap, returned, pvars, gvars, fvars, avars, ivars, tvars>>

\* lines 1017-1028: the inserts of the transcript and of the history settle
insertHistory ==
    /\ savePc = "history"
    /\ savePc' = "done"
    /\ issued' = issued \o <<[table |-> "transcripts", index |-> 0, project_id |-> NullId,
                              answer |-> "data"],
                             [table |-> "session_history", index |-> 0, project_id |-> NullId,
                              answer |-> "data"]>>
    /\ UNCHANGED <<analysisResult, saveIndex, projectMap, returned, pvars, gvars, fvars, avars,
                   ivars, tvars>>

InitFocus == InitFocusWith(MaxFocusTasks)

ProjectClick == \E projectName \in FocusChips : handleProjectClick(projectName)

StartCustomSession ==
    \E ids \in { x \in SUBSET LocalTaskIds : Cardinality(x) <= MaxSelected } :
        handleStartCustomSession(ids)

PointerMove == \E delta \in DragValues : handlePointerMove(delta)

CompleteDeleteSettles == \E i \in 1..Len(completions) : completeDeleteSettles(i)

CompleteSelectSettles == \E i \in 1..Len(completions) : completeSelectSettles(i)

CompleteCountSettles == \E i \in 1..Len(completions) : completeCountSettles(i)

CompleteProjectDeleteSettles == \E i \in 1..Len(completions) : completeProjectDeleteSettles(i)

NextFocus ==
    \/ fetchProjectsSettles \/ fetchProjectsFallbackSettles
    \/ fetchTasksSettles \/ fetchTasksFallbackSettles
    \/ ProjectClick \/ StartCustomSession
    \/ handlePointerDown \/ PointerMove \/ handlePointerUp
    \/ completeTask \/ skipTask
    \/ CompleteDeleteSettles \/ CompleteSelectSettles
    \/ CompleteCountSettles \/ CompleteProjectDeleteSettles
    \/ completeTimeout \/ skipTimeout

SpecFocus == InitFocus /\ [][NextFocus]_vars

\* fetchData called again and again, among the selections of the user
NextFetch ==
    \/ fetchData
    \/ fetchProjectsSettles \/ fetchProjectsFallbackSettles
    \/ fetchTasksSettles \/ fetchTasksFallbackSettles
    \/ ProjectClick \/ StartCustomSession

SpecFetch == InitFocus /\ [][NextFetch]_vars

\* the queue with longer buckets, one completeTask call and one skipTask call at a time
NextSkip ==
    \/ fetchProjectsSettles \/ fetchProjectsFallbackSettles
    \/ fetchTasksSettles \/ fetchTasksFallbackSettles
    \/ ProjectClick
    \/ handlePointerDown \/ PointerMove
    \/ (handlePointerUp /\ completions = <<>> /\ timers = <<>>)
    \/ (completeTask /\ completions = <<>>) \/ (skipTask /\ timers = <<>>)
    \/ CompleteDeleteSettles \/ CompleteSelectSettles
    \/ CompleteCountSettles \/ CompleteProjectDeleteSettles
    \/ completeTimeout \/ skipTimeout

InitSkip == InitFocusWith(MaxSkipTasks)

SpecSkip == InitSkip /\ [][NextSkip]_vars

NextGroup ==
    \/ fetchProjectsSettles \/ fetchProjectsFallbackSettles
    \/ fetchTasksSettles \/ fetchTasksFallbackSettles

SpecGroup == InitGroup /\ [][NextGroup]_vars

(***************************************************************************)
(* analyzeTranscript: the specification.                                   *)
(***************************************************************************)
InitGroq ==
    /\ ProjectsAtRest
    /\ FocusAtRest
    /\ AuthAtRest
    /\ InputAtRest
    /\ SaveAtRest
    /\ apiKey \in BOOLEAN
    /\ transcript \in Transcripts
    /\ groqPc = "idle"
    /\ response = <<>>
    /\ data = <<>>
    /\ outcome = <<>>

NextGroq ==
    \/ analyzeTranscript \/ fetchResolves \/ fetchRejects
    \/ textSettles \/ jsonResolves \/ jsonRejects

SpecGroq == InitGroq /\ [][NextGroq]_vars

(***************************************************************************)
(* useAuth: the specification.  The clock goes on and a due timer fires;   *)
(* the remote auth subsystem may never answer.                             *)
(***************************************************************************)
UseAuthMount == \E owner \in {"App"} \cup GatedOwners, thrown \in BOOLEAN : useAuthMount(owner, thrown)

StrictRemount == \E i \in 1..Len(authEffects), thrown \in BOOLEAN : strictRemount(i, thrown)

UseAuthUnmount == \E i \in 1..Len(authEffects) : useAuthUnmount(i)

AuthTimeout == \E i \in 1..Len(authEffects) : authTimeout(i)

GetSessionResolves ==
    \E i \in 1..Len(authEffects), s \in {NullId} \cup Sessions : getSessionResolves(i, s)

GetSessionRejects == \E i \in 1..Len(authEffects) : getSessionRejects(i)

OnAuthStateChange == \E s \in {NullId} \cup Sessions : onAuthStateChange(s)

HandleSign == \E op \in {"signIn", "signUp"} : handleSign(op)

AuthCallSettles == \E i \in 1..Len(authCalls), answer \in AuthAnswers : authCallSettles(i, answer)

InitAuth == ProjectsAtRest /\ GroqAtRest /\ FocusAtRest /\ AuthAtRest /\ InputAtRest /\ SaveAtRest

NextAuth ==
    \/ UseAuthMount \/ StrictRemount \/ UseAuthUnmount
    \/ AuthTimeout \/ GetSessionResolves \/ GetSessionRejects \/ OnAuthStateChange
    \/ AuthTick
    \/ HandleSign \/ clickSignOut \/ AuthCallSettles

SpecAuth ==
    /\ InitAuth
    /\ [][NextAuth]_vars
    /\ WF_vars(AuthTick)
    /\ WF_vars(AuthTimeout)

(***************************************************************************)
(* InputModule: the specification.  It starts with the user signed in.     *)
(***************************************************************************)
\* useAuth once getSession has answered with a session
AuthSignedIn ==
    /\ session = "s1"
    /\ user = UserOf("s1")
    /\ storeLoading = FALSE
    /\ elapsed = 0
    /\ authEffects = <<[EffectRun("App", FALSE) EXCEPT !.getSession = "settled",
                                                       !.timer = "cleared"]>>
    /\ authCalls = <<>>
    /\ authSettled = <<>>
    /\ authError = NullId
    /\ authLoading = FALSE
    /\ delivered = FALSE

OnResult == \E text \in SpokenTexts : onresult(text)

ChangeKeyboardText == \E text \in {""} \cup TypedTexts : changeKeyboardText(text)

HandleViewChange == \E view \in Views : handleViewChange(view)

UserObjectChanges == \E s \in {NullId} \cup Sessions : userObjectChanges(s)

AnalyzeSettles == \E i \in 1..Len(processes) : analyzeSettles(i)

InsertsSettle == \E i \in 1..Len(processes) : insertsSettle(i)

InitInput == ProjectsAtRest /\ GroqAtRest /\ FocusAtRest /\ AuthSignedIn /\ InputAtRest /\ SaveAtRest

NextInput ==
    \/ handleMainAction \/ OnResult \/ handleRetake \/ handleFinish
    \/ openKeyboard \/ ChangeKeyboardText \/ cancelTyping \/ handleKeyboardSubmit
    \/ HandleViewChange \/ handleStartWork \/ handleBackToInput \/ handleNavigateToProjects
    \/ UserObjectChanges
    \/ AnalyzeSettles \/ InsertsSettle

SpecInput == InitInput /\ [][NextInput]_vars

\* the same with every remote call settling in the end: a pending analyzeTranscript
\* resolves (line 977) and the pending inserts run to their end (lines 984-1028)
SpecInputFair == SpecInput /\ WF_vars(AnalyzeSettles) /\ WF_vars(InsertsSettle)

(***************************************************************************)
(* ProjectsModule: the specification of the toast with its clock.  The     *)
(* clock goes on and a due timer fires; a step is deleted only while the   *)
(* clock can still reach the end of the delay.                             *)
(***************************************************************************)
DeleteInTime ==
    /\ toastClock + ToastWait <= MaxToastTicks * ToastTickMs
    /\ \E r \in RenderedSteps : handleDeleteTask(r[1], r[2])

InitToast == InitWith(1..MaxInitSteps, {"any"}) /\ GroqAtRest /\ FocusAtRest /\ AuthAtRest /\ InputAtRest /\ SaveAtRest

NextToast == DeleteInTime \/ handleUndo \/ toastTimeoutDue \/ ToastTick

SpecToast ==
    /\ InitToast
    /\ [][NextToast]_vars
    /\ WF_vars(ToastTick)
    /\ WF_vars(toastTimeoutDue)

(***************************************************************************)
(* processAI: the specification of the inserts.                            *)
(***************************************************************************)
InsertProject == \E answer \in InsertAnswers : insertProject(answer)

InsertTask == \E answer \in InsertAnswers : insertTask(answer)

InitSave == ProjectsAtRest /\ GroqAtRest /\ FocusAtRest /\ AuthSignedIn /\ InputAtRest /\ SaveStarts

NextSave == InsertProject \/ InsertTask \/ insertHistory

SpecSave == InitSave /\ [][NextSave]_vars

(***************************************************************************)
(* ProjectsModule: the specifications.                                     *)
(***************************************************************************)
DragStart == \E item \in DragItems : handleDragStart(item)

DragEnter == \E t \in DragItems : handleDragEnter(t)

\* the same handlers on steps only
DragStartStep == \E item \in TaskItems : handleDragStart(item)

DragEnterStep == \E t \in TaskItems : handleDragEnter(t)

EditClick == \E c \in ClickableTitles : handleEditClick(c[1], c[2])

EditClickStep == \E c \in ClickableStepTitles : handleEditClick(c[1], c[2])

ChangeTemp == \E v \in Texts : changeTempText(v)

SaveProjectTitle == \E pid \in ProjectIds : handleSaveEdit(pid, "")

SaveStepTitle == \E r \in RenderedSteps : handleSaveEdit(r[1], r[2])

DeleteTask == \E r \in RenderedSteps : handleDeleteTask(r[1], r[2])

StartAdding == \E pid \in ProjectIds : startAddingTask(pid)

ChangeNew == \E v \in Texts : changeNewTaskText(v)

\* a blank text creates nothing and is always allowed
SubmitWithin(bound) ==
    \E pid \in ProjectIds :
        /\ Trim(newTaskText) # "" => created < bound
        /\ submitNewTask(pid)

SubmitNew == SubmitWithin(MaxCreates)

SubmitNewUndo == SubmitWithin(MaxUndoCreates)

\* drag events only
NextDrag == DragStart \/ DragEnter \/ handleDragEnd

InitDrag == InitWith(1..MaxDragSteps, {"any"}) /\ GroqAtRest /\ FocusAtRest /\ AuthAtRest /\ InputAtRest /\ SaveAtRest

SpecDrag == InitDrag /\ [][NextDrag]_vars

\* create, rename and delete of steps
NextSteps ==
    \/ EditClickStep \/ ChangeTemp \/ SaveStepTitle
    \/ StartAdding \/ ChangeNew \/ SubmitNew
    \/ DeleteTask \/ Tick

InitSteps == InitWith(1..MaxInitSteps, {"any"}) /\ GroqAtRest /\ FocusAtRest /\ AuthAtRest /\ InputAtRest /\ SaveAtRest

SpecSteps == InitSteps /\ [][NextSteps]_vars

\* the texts typed into a title input
RenameTexts == {" ", "x", "y"}

ChangeTempTo == \E v \in RenameTexts : changeTempText(v)

ChangeNewTo == \E v \in RenameTexts : changeNewTaskText(v)

\* renames of steps and of a new project, among creates of steps and of a project
NextRename ==
    \/ EditClickStep \/ ChangeTempTo \/ SaveProjectTitle \/ SaveStepTitle
    \/ StartAdding \/ ChangeNewTo \/ SubmitNew \/ handleAddProject \/ Tick

InitRename == InitWith({1}, {"any"}) /\ GroqAtRest /\ FocusAtRest /\ AuthAtRest /\ InputAtRest /\ SaveAtRest

SpecRename == InitRename /\ [][NextRename]_vars

\* delete, undo and the toast timer, with the operations that may come between a
\* delete and its undo: a run mixes them with drags, with renames or with adds
NextUndo ==
    \/ DeleteTask \/ handleUndo \/ toastTimeout
    \/ (mix = "rename" /\ (EditClickStep \/ ChangeTemp \/ SaveStepTitle))
    \/ (mix = "add" /\ (StartAdding \/ ChangeNew \/ SubmitNewUndo))
    \/ (mix = "drag" /\ (DragStartStep \/ DragEnterStep \/ handleDragEnd))

InitUndo == InitWith(1..MaxUndoSteps, {"drag", "rename", "add"}) /\ GroqAtRest /\ FocusAtRest /\ AuthAtRest /\ InputAtRest /\ SaveAtRest

SpecUndo == InitUndo /\ [][NextUndo]_vars

(***************************************************************************)
(* ProjectsModule: the properties.                                         *)
(***************************************************************************)
\* arr without its element at place k (1-based)
Without(arr, k) == [m \in 1..(Len(arr) - 1) |-> IF m < k THEN arr[m] ELSE arr[m + 1]]

\* new is old with the element at index i moved to index j (0-based), the others in order
MovedTo(old, new, i, j) ==
    /\ Len(new) = Len(old)
    /\ new[j + 1] = old[i + 1]
    /\ Without(new, j + 1) = Without(old, i + 1)

\* new is old with item inserted at index k (0-based)
InsertedAt(old, new, k, item) ==
    /\ Len(new) = Len(old) + 1
    /\ k < Len(new)
    /\ new[k + 1] = item
    /\ Without(new, k + 1) = old

\* the projects are the same ones in the same order, their steps apart
SameProjects(old, new) ==
    /\ Len(new) = Len(old)
    /\ \A i \in 1..Len(old) : [new[i] EXCEPT !.steps = <<>>] = [old[i] EXCEPT !.steps = <<>>]

\* how many times the step x occurs over all projects
StepCount(ps, x) ==
    LET RECURSIVE Sum(_)
        Sum(i) == IF i = 0 THEN 0
                  ELSE Sum(i - 1) + Cardinality({ k \in 1..Len(ps[i].steps) : ps[i].steps[k] = x })
    IN  Sum(Len(ps))

\* the steps that occur in ps
StepsIn(ps) == UNION { { ps[i].steps[k] : k \in 1..Len(ps[i].steps) } : i \in 1..Len(ps) }

\* the two lists hold the same multiset of steps
SameStepBag(old, new) ==
    \A x \in StepsIn(old) \cup StepsIn(new) : StepCount(old, x) = StepCount(new, x)

\* rec.task is back in project rec.projectId at index k, with its title and done flag
RestoredAt(rec, k) ==
    LET i == FirstWith(projects, rec.projectId)
    IN  /\ projects'[i].id = rec.projectId
        /\ k < Len(projects'[i].steps)
        /\ projects'[i].steps[k + 1].title = rec.task.title
        /\ projects'[i].steps[k + 1].isDone = rec.task.isDone

\* an undo while the timer of the last delete is still pending
UndoInWindow == handleUndo /\ removed # <<>> /\ toastTimeoutRef

\* C2 (as amended): an undo within the 4-second window of the last delete, after any
\* adds, renames or drags, puts a step with the deleted step's title and done flag back
\* into its project at index min(k, n), where k is the index it was deleted at and n the
\* number of steps the project holds when the undo runs.
C2_UndoRestoresAtClampedIndex ==
    [][UndoInWindow =>
         RestoredAt(removed[1],
                    Min(removed[1].index,
                        Len(projects[FirstWith(projects, removed[1].projectId)].steps)))]_vars

\* C2 witness: an undo has run within the window, after the list changed since the delete
C2_UndoneInWindowAfterChange == undone > 0 /\ toastTimeoutRef /\ touched /\ ~toastVisible

\* C2 (as stated): the step is back at index k itself
C2_UndoRestoresAtSameIndex ==
    [][UndoInWindow => RestoredAt(removed[1], removed[1].index)]_vars

\* C3 (as stated): handleUndo after the timer of the last delete has fired leaves the
\* projects list and every step list unchanged
C3_LateUndoIsNoOp ==
    [][(handleUndo /\ ~toastTimeoutRef) => projects' = projects]_vars

\* exactly the step of rec is put back, into its project, and nothing else changes
RestoresOnly(rec) ==
    /\ SameProjects(projects, projects')
    /\ \A i \in 1..Len(projects) :
          IF projects[i].id = rec.projectId
          THEN \E k \in 0..Len(projects[i].steps) :
                   InsertedAt(projects[i].steps, projects'[i].steps, k, rec.task)
          ELSE projects'[i].steps = projects[i].steps

\* C4: the undo record is a single slot consumed by use: a handleUndo that follows one or
\* more deletes puts back the most recently deleted step and no other, and a handleUndo
\* with no delete since the last restoring undo changes nothing.
C4_SingleSlotUndo ==
    [][handleUndo =>
         IF removed = <<>> THEN projects' = projects ELSE RestoresOnly(removed[1])]_vars

\* C4 witness: an undo has restored a step after two or more deletes, and the undo
\* button can be pressed again
C4_UndoneAfterTwoDeletes == undone = 2 /\ removed = <<>> /\ UiIdle

\* a drag-enter on t that moves within one list: the projects list or one project's steps
SameListEnter(t) ==
    /\ handleDragEnter(t)
    /\ dragItem[1].type = t.type
    /\ t.type = "task" => dragItem[1].projectId = t.projectId
    /\ dragItem[1].index # t.index

\* C5: a drag-enter that moves the dragged item from index i to index j of its list gives
\* a permutation of the list with the moved item at j and the others in their order, and
\* sets the drag state's index to j.
C5_SameListMove ==
    [][\A t \in DragItems :
          SameListEnter(t) =>
            /\ dragItem'[1].index = t.index
            /\ IF t.type = "project"
               THEN MovedTo(projects, projects', dragItem[1].index, t.index)
               ELSE /\ SameProjects(projects, projects')
                    /\ \A i \in 1..Len(projects) :
                          IF projects[i].id = t.projectId
                          THEN MovedTo(projects[i].steps, projects'[i].steps,
                                       dragItem[1].index, t.index)
                          ELSE projects'[i].steps = projects[i].steps]_vars

\* C5 witness: the first project has been dragged to the last place of the list
C5_ProjectDraggedToEnd ==
    /\ dragItem # <<>>
    /\ dragItem[1] = [type |-> "project", projectId |-> "", index |-> 2]
    /\ draggedId = "p1"
    /\ projects[3].id = "p1"

\* a drag-enter of a step on a step of another project
CrossProjectEnter(t) ==
    /\ handleDragEnter(t)
    /\ dragItem[1].type = "task"
    /\ t.type = "task"
    /\ dragItem[1].projectId # t.projectId

\* the step at d leaves its project and enters the project of t at t's index
CrossMoved(d, t) ==
    LET src == FirstWith(projects, d.projectId)
        dst == FirstWith(projects, t.projectId)
    IN  /\ SameProjects(projects, projects')
        /\ projects'[src].steps = Without(projects[src].steps, d.index + 1)
        /\ InsertedAt(projects[dst].steps, projects'[dst].steps, t.index,
                      projects[src].steps[d.index + 1])
        /\ \A i \in 1..Len(projects) : i \notin {src, dst} => projects'[i] = projects[i]

\* the drag state designates the item the drag started on
DesignatesDragged == dragItem # <<>> => ItemId(projects, dragItem[1]) = draggedId

\* C6: a cross-project drag-enter takes the dragged step out of its project and inserts it
\* at the target index of the destination, everything else in order; over drag-start,
\* drag-enter and drag-end events the multiset of steps stays the same, no entry is
\* undefined, and the drag state designates the dragged step.
C6_CrossProjectMove ==
    [][/\ \A t \in TaskItems : CrossProjectEnter(t) => CrossMoved(dragItem[1], t)
       /\ SameStepBag(projects, projects')
       /\ UndefinedStep \notin StepsIn(projects')
       /\ DesignatesDragged']_vars

\* C6 witness: the first step of the first project is being dragged and is now in the
\* second project
C6_StepDraggedAcross ==
    /\ dragItem # <<>>
    /\ dragItem[1].type = "task"
    /\ dragItem[1].projectId = "p2"
    /\ draggedId = "s1"

\* C7 (as stated): over creates, renames and deletes each project's number of steps grows
\* by one with a create in it, shrinks by one with a delete in it, and is otherwise unchanged
C7_StepCount ==
    [][/\ Len(projects') = Len(projects)
       /\ \A i \in 1..Len(projects) :
            Len(projects'[i].steps) =
              Len(projects[i].steps)
              + (IF submitNewTask(projects[i].id) /\ created' = created + 1 THEN 1 ELSE 0)
              - (IF \E r \in RenderedSteps : r[1] = projects[i].id /\ handleDeleteTask(r[1], r[2])
                 THEN 1 ELSE 0)]_vars

(***************************************************************************)
(* analyzeTranscript: the properties.                                      *)
(***************************************************************************)
\* the call has settled
Settled == groqPc = "settled"

\* fetch rejected
NetworkError == Settled /\ apiKey /\ response = <<>>

\* the response was not a 2xx one
NonOkResponse == Settled /\ response # <<>> /\ ~response[1].ok

\* the body had choices but no content, or an empty one
NoContent ==
    Settled /\ data # <<>> /\ data[1].shape # "noChoices"
    /\ ContentOf(data[1]).str \in {"missing", "empty"}

\* the content was no JSON text
Unparsable == Settled /\ data # <<>> /\ data[1].shape = "message" /\ data[1].content.str = "garbage"

\* one project, one task of that project, three empty insight lists
FallbackShaped(v) ==
    /\ DOMAIN v = Fields
    /\ Len(v.projects) = 1
    /\ Len(v.tasks) = 1
    /\ v.tasks[1].project_name = v.projects[1].name
    /\ v.insights = [dreams |-> <<>>, difficulties |-> <<>>, goals |-> <<>>]

\* C8: with a credential the call never rejects, and after a network error, a non-2xx
\* response, a missing or empty content or an unparsable content it resolves to the one
\* fixed fallback: one project, one task of that project, three empty insight lists.
C8_FailuresResolveToFallback ==
    (Settled /\ apiKey) =>
        /\ outcome[1].kind = "resolved"
        /\ (NetworkError \/ NonOkResponse \/ NoContent \/ Unparsable) =>
              (outcome[1].value = Fallback /\ FallbackShaped(outcome[1].value))

\* C8 witness: a call with a credential has settled after an unparsable content
C8_SettledAfterUnparsable == apiKey /\ Unparsable /\ outcome = <<Resolved(Fallback)>>

\* C9 (as stated): without a credential the call resolves with the fallback
C9_MissingCredentialResolves ==
    (Settled /\ ~apiKey) => outcome = <<Resolved(Fallback)>>

\* the content parsed to an object without one of the three top-level fields
ParsedLacksField ==
    /\ Settled /\ data # <<>> /\ data[1].shape = "message"
    /\ data[1].content.str = "json"
    /\ data[1].content.value.type = "object"
    /\ DOMAIN data[1].content.value.fields # Fields

\* C10 (as stated): a parsed object that lacks projects, tasks or insights is never
\* returned: the call resolves with the fallback
C10_IncompleteObjectResolvesToFallback ==
    ParsedLacksField => outcome = <<Resolved(Fallback)>>

(***************************************************************************)
(* FocusModule: the properties.                                            *)
(***************************************************************************)
\* the buckets have been loaded
Loaded == fetchPc = "done" /\ "Hoy" \in DOMAIN projectsState

\* the task row is shown in the bucket of its project
ShownLocally(row) ==
    \A i \in 1..Len(dbProjects) :
        dbProjects[i].id = row.project_id =>
            /\ dbProjects[i].name \in DOMAIN projectsState
            /\ \E k \in 1..Len(projectsState[dbProjects[i].name]) :
                  projectsState[dbProjects[i].name][k].id = row.id

\* C1 (as stated): a task leaves its local bucket only if its row was deleted remotely:
\* once the buckets are loaded, every task row that is still in the remote table is
\* still in the bucket of its project, whatever pointer-up, mouse-leave and button
\* events arrive while completeTask calls are in flight.
C1_OnlyDeletedTasksLeaveBuckets ==
    Loaded => \A k \in 1..Len(dbTasks) : ShownLocally(dbTasks[k])

\* the bucket is the one shown, of a mounted and loaded component
Shown == Loaded /\ ~crashed

\* the number of tasks left in the bucket
Remaining(name) == IF name \in DOMAIN projectsState THEN Len(projectsState[name]) ELSE 0

\* the number of tasks the bucket started with
Initial(name) == IF name \in DOMAIN initialCounts THEN initialCounts[name] ELSE 0

\* C11 (as stated): a selected bucket that started with zero items, Hoy or a project
\* fetched with no task, shows the empty state and not the completed state.
C11_EmptyBucketShowsEmptyState ==
    (Shown /\ selectedProject \in DOMAIN initialCounts /\ initialCounts[selectedProject] = 0)
        => (isHoyEmpty /\ ~isProjectCompleted)

\* a step of skipTask: the button, the swipe to the left, or its timeout
SkipStep == skipTask \/ (handlePointerUp /\ SwipedLeft) \/ skipTimeout

\* C12: the completed state is shown for the selected bucket exactly when the bucket
\* started with N > 0 tasks and none is left; no bucket holds more tasks than it started
\* with, so none left means all N removed; and no step of skipTask leads into the
\* completed state.
C12_CompletedWhenAllRemoved ==
    /\ [](Shown => /\ isProjectCompleted <=>
                        (Initial(selectedProject) > 0 /\ Remaining(selectedProject) = 0)
                   /\ \A name \in DOMAIN projectsState : Remaining(name) <= Initial(name))
    /\ [][SkipStep => (isProjectCompleted' => isProjectCompleted)]_vars

\* C12 (witness): the session of Hoy, started with a task, shows the completed state
C12_SessionCompleted ==
    Shown /\ selectedProject = "Hoy" /\ isProjectCompleted /\ sessions > 0 /\ completions = <<>>

\* the remote project of the name has a row / has a task row
HasProjectRow(rows, name) == \E k \in 1..Len(rows) : rows[k].name = name

HasTaskRow(rows, name) == \E k \in 1..Len(rows) : rows[k].project_id = ProjectRow(name).id

\* the step ends the completeTask call i, which had deleted its task remotely
EndsAfterDelete(i) ==
    /\ completions[i].pc \in {"select", "count", "projectDelete"}
    /\ Len(completions') < Len(completions)
    /\ completions' = RemoveAt(completions, i)

\* no task row is left without its project row
NoOrphanTask ==
    \A k \in 1..Len(dbTasks) : \E m \in 1..Len(dbProjects) : dbProjects[m].id = dbTasks[k].project_id

C14_ReleaseWithinThresholdSnapsBack ==
    [][handlePointerUp =>
          /\ (dragX >= -100 /\ dragX <= 100) =>
                /\ dragX' = 0
                /\ UNCHANGED <<bucketVars, completions, timers, animatingOut, remoteVars>>
          /\ completions' # completions => dragX > 100
          /\ timers' # timers => dragX < -100]_vars

\* C14 (witness): the card was released at an offset within the threshold, back at 0
C14_SnappedBack == snappedBack /\ dragX = 0 /\ ~isDragging /\ FrontCard

\* the bucket after its first task went to the back
LeftRotation(tasks) ==
    IF Len(tasks) < 2 THEN tasks ELSE SubSeq(tasks, 2, Len(tasks)) \o <<tasks[1]>>

RECURSIVE LeftRotations(_, _)
LeftRotations(tasks, k) == IF k = 0 THEN tasks ELSE LeftRotations(LeftRotation(tasks), k - 1)

RECURSIVE SkippedTimes(_, _, _)
SkippedTimes(state, name, k) ==
    IF k = 0 THEN state ELSE SkippedTimes(Rotated(state, name), name, k - 1)

CompleteCall ==
    \/ completeTask
    \/ (handlePointerUp /\ SwipedRight /\ currentProjectTasks # <<>>)

\* C18 (as stated): the call of completeTask takes the front task out of the shown bucket
\* at once, before the remote delete settles, and the task stays out when the remote
\* delete fails.
C18_CompletionIsOptimistic ==
    [][/\ CompleteCall => Remaining(selectedProject)' = Remaining(selectedProject) - 1
       /\ \A i \in 1..Len(completions) :
            (completions[i].pc = "delete" /\ completeDeleteSettles(i) /\ ~remoteOk') =>
                \A k \in 1..Len(currentProjectTasks') :
                    currentProjectTasks'[k].id # completions[i].task.id]_vars

\* the error says that the column sort_order does not exist
ColumnMissing(error) ==
    error # <<>> /\ (error.code = "42703" \/ \E k \in 1..Len(error.message) :
                                                  error.message[k] = "sort_order")

\* C19: the projects query and the tasks query are each followed by the query without
\* sort_order exactly when their error has code 42703 or mentions sort_order; the query
\* without sort_order is never followed by another attempt of the same query.
C19_RetryOnMissingColumnOnly ==
    [][/\ (fetchPc = "projects" /\ fetchPc' # fetchPc) =>
             /\ fetchPc' \in {"projectsFallback", "tasks", "done"}
             /\ fetchPc' = "projectsFallback" <=> ColumnMissing(queryError')
       /\ (fetchPc = "tasks" /\ fetchPc' # fetchPc) =>
             /\ fetchPc' \in {"tasksFallback", "done"}
             /\ fetchPc' = "tasksFallback" <=> ColumnMissing(queryError')
       /\ (fetchPc = "projectsFallback" /\ fetchPc' # fetchPc) => fetchPc' \in {"tasks", "done"}
       /\ (fetchPc = "tasksFallback" /\ fetchPc' # fetchPc) => fetchPc' = "done"
       /\ fetchPc = "done" => fetchPc' = "done"]_vars

\* C19 (witness): the tasks query is being retried for an error that mentions sort_order
\* under another code than 42703
C19_RetriedForMessage ==
    /\ fetchPc = "tasksFallback"
    /\ queryError # <<>>
    /\ queryError.code = "PGRST204"

(***************************************************************************)
(* useAuth: the properties.                                                *)
(***************************************************************************)
\* the timer of a run fires in this step while its getSession call has not answered
TimerFiresFirst ==
    \E i \in 1..Len(authEffects) :
        /\ authEffects[i].timer = "armed"
        /\ authEffects[i].getSession = "pending"
        /\ authTimeout(i)

\* C16: after useAuth mounts, loading becomes false whether getSession resolves, rejects
\* or never answers, and stays false; loading is never true once the wait has gone by; and
\* when the timer fires before getSession answers and loading becomes false, user and
\* session are null
C16_LoadingEndsWithinWait ==
    /\ (authEffects # <<>>) ~> []~storeLoading
    /\ [](storeLoading => elapsed <= AuthWait)
    /\ [][(TimerFiresFirst /\ storeLoading /\ ~storeLoading')
            => (user' = NullId /\ session' = NullId)]_vars

\* C16: the timer of App's run fired at the end of the wait, before getSession answered,
\* and the user is logged out with loading false
C16_TimerEndedLoading ==
    \E i \in 1..Len(authEffects) :
        /\ authEffects[i].owner = "App"
        /\ authEffects[i].timer = "fired"
        /\ authEffects[i].getSession = "pending"
        /\ elapsed = AuthWait
        /\ ~storeLoading
        /\ user = NullId
        /\ session = NullId

\* C17: the promise of a settled signIn, signUp or signOut call rejected with the error
\* whenever the remote auth subsystem reported one
C17_AuthErrorsSurfaced ==
    (authSettled # <<>> /\ authSettled.answer.error # NullId)
        => authSettled.outcome = Rejected(authSettled.answer.error)

(***************************************************************************)
(* InputModule: the properties.                                            *)
(***************************************************************************)
\* C20: the entries into the state synthesizing never cause more analyzeTranscript calls,
\* more batches of remote inserts or more onProcessComplete calls than one each, whatever
\* renders App again or changes the transcript or the user object meanwhile
C20_OncePerCaptureSession ==
    /\ analyzeCalls <= entries
    /\ insertBatches <= entries
    /\ completeCalls <= entries

(***************************************************************************)
(* processAI: the properties of the inserts.                               *)
(***************************************************************************)
\* the task inserts issued so far
TaskInserts == { k \in 1..Len(issued) : issued[k].table = "tasks" }

\* the project_name of the task of an insert
TaskNameOf(k) == analysisResult.tasks[issued[k].index + 1]

\* the projects of the batch, by place, that bear the name
Named(name) == { q \in 1..Len(analysisResult.projects) : analysisResult.projects[q] = name }

\* every project of the batch was inserted and its insert returned data
AllProjectsSaved ==
    /\ Len(returned) = Len(analysisResult.projects)
    /\ \A q \in 1..Len(returned) : returned[q] # NullId

\* no task insert is issued before the last project insert
ProjectsBeforeTasks ==
    \A k \in TaskInserts :
        /\ Len(returned) = Len(analysisResult.projects) \/ savePc = "done"
        /\ \A j \in 1..Len(issued) : issued[j].table = "projects" => j < k

\* C21: project inserts come before task inserts; when every project insert succeeds, a
\* task is inserted with the id returned for each project of the batch that bears its
\* project_name; a task whose project_name matches no project is inserted with no project
C21_TasksAssociatedByName ==
    /\ ProjectsBeforeTasks
    /\ AllProjectsSaved =>
          \A k \in TaskInserts : \A q \in Named(TaskNameOf(k)) :
              issued[k].project_id = returned[q]
    /\ \A k \in TaskInserts : Named(TaskNameOf(k)) = {} => issued[k].project_id = NullId

\* the last project of the batch that bears the name
LastNamed(name) == CHOOSE q \in Named(name) : \A r \in Named(name) : r <= q

\* C21, amended: project inserts come before task inserts; when every project insert
\* succeeds, a task with a non-empty project_name borne by a project of the batch is
\* inserted with the id returned for the last project of that name; a task with an empty
\* or null project_name, or one that matches no project, is inserted with no project
C21_TasksAssociatedWithLastOfName ==
    /\ ProjectsBeforeTasks
    /\ AllProjectsSaved =>
          \A k \in TaskInserts :
              (TaskNameOf(k) \notin {NullId, ""} /\ Named(TaskNameOf(k)) # {})
                  => issued[k].project_id = returned[LastNamed(TaskNameOf(k))]
    /\ \A k \in TaskInserts :
          (TaskNameOf(k) \in {NullId, ""} \/ Named(TaskNameOf(k)) = {})
              => issued[k].project_id = NullId

\* C21: both projects of a batch bear the same name, both inserts returned data, and the
\* task of that name was inserted with the id of the second
C21_TaskSavedUnderLastProject ==
    /\ analysisResult.projects = <<"Casa", "Casa">>
    /\ AllProjectsSaved
    /\ \E k \in TaskInserts : TaskNameOf(k) = "Casa" /\ issued[k].project_id = RowId(1)

(***************************************************************************)
(* FocusModule.fetchData: the properties of the grouping.                  *)
(***************************************************************************)
\* fetchData has ended without an error
FetchSucceeded == fetchPc = "done" /\ ~loading /\ queryError = <<>>

\* the ids of the tasks of a bucket
BucketIds(name) == { projectsState[name][k].id : k \in 1..Len(projectsState[name]) }

\* the ids of the fetched tasks of a project row
TaskIdsOf(row) == { dbTasks[k].id : k \in { j \in 1..Len(dbTasks) : dbTasks[j].project_id = row.id } }

\* C22: after a successful fetchData the bucket Hoy is there, empty, with initial count 0
\* and first among the chips; every fetched project has its bucket holding exactly its
\* fetched tasks, with initial count the bucket's length; and every fetched task of a
\* fetched project is in exactly one bucket
C22_OneBucketPerProject ==
    FetchSucceeded =>
        /\ "Hoy" \in DOMAIN projectsState
        /\ projectsState["Hoy"] = <<>>
        /\ initialCounts["Hoy"] = 0
        /\ Head(BucketOrder) = "Hoy"
        /\ \A i \in 1..Len(dbProjects) :
              /\ dbProjects[i].name \in DOMAIN projectsState
              /\ BucketIds(dbProjects[i].name) = TaskIdsOf(dbProjects[i])
              /\ Len(projectsState[dbProjects[i].name]) = Cardinality(TaskIdsOf(dbProjects[i]))
              /\ initialCounts[dbProjects[i].name] = Len(projectsState[dbProjects[i].name])
        /\ \A i \in 1..Len(dbProjects) : \A id \in TaskIdsOf(dbProjects[i]) :
              Cardinality({ name \in DOMAIN projectsState \ {"Hoy"} : id \in BucketIds(name) }) = 1

(***************************************************************************)
(* ProjectsModule: the properties of the toast timer.                      *)
(***************************************************************************)
\* handleDeleteTask removes a step in this step
DeleteStep ==
    \E r \in RenderedSteps :
        /\ DeleteRecord(projects, r[1], r[2]) # <<>>
        /\ handleDeleteTask(r[1], r[2])

\* C23: a delete shows the toast; the timer hides a visible toast exactly 4 seconds after
\* the most recent delete, so never the timer of an earlier delete; the toast is never
\* visible later than that; and a visible toast eventually becomes hidden
C23_ToastHiddenAfterLastDelete ==
    /\ [][DeleteStep => toastVisible']_vars
    /\ [][(toastTimeout /\ toastVisible) => toastClock = deletedAt + ToastWait]_vars
    /\ [](toastVisible => toastClock <= deletedAt + ToastWait)
    /\ [](toastVisible => <>~toastVisible)

\* C23: after two deletes with time between them, the timer has hidden the toast 4
\* seconds after the second
C23_HiddenAfterSecondDelete ==
    /\ deletes = 2
    /\ deletedAt > 0
    /\ lastDeleted # <<>>
    /\ ~toastVisible
    /\ ~toastTimeoutRef
    /\ toastClock = deletedAt + ToastWait

(***************************************************************************)
(* FocusModule: the properties of the selection, of the gesture at rest    *)
(* and of a failed fetchData.                                              *)
(***************************************************************************)
\* C24: the selected bucket is Hoy or a key of the bucket map
C24_SelectedBucketValid == selectedProject = "Hoy" \/ selectedProject \in DOMAIN projectsState

\* every gesture and button action has run to completion: the pointer is released, no
\* timer is pending and no remote call of completeTask is awaited
ActionsSettled == ~crashed /\ ~isDragging /\ completions = <<>> /\ timers = <<>>

\* C26: once every gesture and button action has run to completion, the drag offset is
\* 0 and no card is animating out
C26_GestureAtRest == ActionsSettled => (dragX = 0 /\ animatingOut = "null")

(***************************************************************************)
(* ProjectsModule: the properties of the identifiers and of a rename.      *)
(***************************************************************************)
\* the places of the steps: <<i, k>> is step k of project i
StepPlaces == UNION { { <<i, k>> : k \in 1..Len(projects[i].steps) } : i \in 1..Len(projects) }

\* C28 (as stated): the ids of the steps are pairwise distinct over all projects, and
\* the ids of the projects are pairwise distinct
C28_IdsUnique ==
    /\ \A a, b \in StepPlaces :
          projects[a[1]].steps[a[2]].id = projects[b[1]].steps[b[2]].id => a = b
    /\ \A i, j \in 1..Len(projects) : projects[i].id = projects[j].id => i = j

\* the list with the title of project i set to text
WithProjectTitle(i, text) == [projects EXCEPT ![i].title = text]

\* the list with the title of step k of project i set to text
WithStepTitle(i, k, text) == [projects EXCEPT ![i].steps[k].title = text]

\* C29 (as stated): handleSaveEdit with a blank text changes nothing of the list; with a
\* text it sets the title of the one project, or the title of the one step, it was
\* called for and changes nothing else; either way it leaves edit mode
C29_RenameChangesOneTitle ==
    [][/\ (SaveProjectTitle \/ SaveStepTitle) => editingId' = NullId
       /\ (SaveProjectTitle \/ SaveStepTitle) /\ Trim(tempText) = "" => projects' = projects
       /\ \A i \in 1..Len(projects) :
            handleSaveEdit(projects[i].id, "") /\ Trim(tempText) # ""
            => projects' = WithProjectTitle(i, tempText)
       /\ \A r \in RenderedSteps :
            handleSaveEdit(r[1], r[2]) /\ Trim(tempText) # ""
            => \E a \in StepPlaces :
                 /\ projects[a[1]].id = r[1]
                 /\ projects[a[1]].steps[a[2]].id = r[2]
                 /\ projects' = WithStepTitle(a[1], a[2], tempText)]_vars

(***************************************************************************)
(* InputModule: the property of the end of processAI.                      *)
(***************************************************************************)
\* Finish pressed without a transcript
FinishWithoutTranscript == handleFinish /\ inputTranscript = ""

\* a step in which a processAI call ends
ProcessingEnds == completeCalls' # completeCalls

QuerySettles == fetchPc' # fetchPc

\* a step in which fetchData ends on an error
FetchFails == QuerySettles /\ fetchPc' = "done" /\ queryError' # <<>>

\* C30: the step in which fetchData ends on an error leaves the bucket map, the initial
\* counts and the selected bucket as they are and sets loading to false; an error of a
\* query ends fetchData unless it is the first error of that query and says that the
\* column sort_order is missing; and the tasks query is issued only after a projects
\* query without an error
C30_FailedFetchChangesNothing ==
    /\ [][FetchFails => /\ UNCHANGED bucketVars
                        /\ ~loading']_vars
    /\ [][QuerySettles /\ queryError' # <<>>
            => \/ FetchFails
               \/ /\ SortOrderMissing(queryError')
                  /\ <<fetchPc, fetchPc'>> \in {<<"projects", "projectsFallback">>,
                                                <<"tasks", "tasksFallback">>}]_vars
    /\ [][fetchPc' = "tasks" /\ QuerySettles
            => fetchPc \in {"projects", "projectsFallback"} /\ queryError' = <<>>]_vars
    /\ [](fetchPc \in {"tasks", "tasksFallback"} => loading)

\* fetchData has ended on an error of the tasks query, with the project rows fetched,
\* after an earlier call had filled the buckets and the user had selected one
C30_TasksQueryFailed ==
    /\ fetchPc = "done"
    /\ queryError # <<>>
    /\ projectsData # <<>>
    /\ ~loading
    /\ selectedProject = "A"
    /\ "B" \in DOMAIN projectsState

(***************************************************************************)
(* useAuth: the property of a delivered session.                           *)
(***************************************************************************)
\* C25: once the subscription has delivered a session, the stored session and user stay
\* set until a notification or a getSession result without a session; no timer sets
\* them to null
C25_TimerKeepsDeliveredSession == delivered => (user # NullId /\ session # NullId)

====
